---- MODULE Spec2Model ----
(***************************************************************************)
(* A model of the wildcard matcher: the pattern parser (Parser::parse),    *)
(* the validator (Validator) and the matching strategies.                  *)
(*                                                                         *)
(* Characters are modelled by their char value (ASCII code; a byte above   *)
(* 127 is a negative char value, as on platforms where char is signed).    *)
(* Strings are sequences of characters.  std::optional<T> is a sequence of *)
(* length 0 (nullopt) or 1.                                                *)
(***************************************************************************)
EXTENDS Integers, Sequences, FiniteSets, TLC

(***************************************************************************)
(* Bounds of the model.                                                    *)
(***************************************************************************)
\* Longest pattern handed to the parser alone (SpecParse).
MaxPatLen == 5
\* Longest text and longest pattern handed to the matching strategies (Spec).
MaxTextLen == 2
MaxMatchPatLen == 4
\* Longest raw string handed to the validator alone (SpecValidate).
MaxRawLen == 3
\* Longest pattern of a case of the parser test (SpecParserTest).
MaxCallPatLen == 2
\* Most events of a ParseResult handed to the validator alone
\* (SpecValidateEvents).
MaxGreedyTextLen == 3
MaxGreedyPatLen == 4
MaxEvents == 3

(***************************************************************************)
(* Characters.                                                             *)
(***************************************************************************)
QuestionMark == 63
Asterisk == 42
Backslash == 92
\* Two ordinary (literal) characters, 'a' and 'b'.
OrdinaryChars == {97, 98}
PatternChars == OrdinaryChars \cup {QuestionMark, Asterisk, Backslash}
\* The characters of the texts and patterns handed to the matching strategies:
\* a text may hold an asterisk, which only an escaped asterisk matches
\* literally, and a 'b', which no pattern character equals.
TextChars == OrdinaryChars \cup {Asterisk}
MatchPatternChars == {97, QuestionMark, Asterisk, Backslash}
\* Raw input characters: 'a', DEL (the largest ASCII value) and the bytes 0x80
\* and 0xC2, which are negative char values.
RawChars == {97, 127, -128, -62}

\* All sequences over S of length at most n.
SeqsUpTo(S, n) == UNION {[1..k -> S] : k \in 0..n}

None == <<>>
Some(x) == <<x>>

(***************************************************************************)
(* Tokens (utils/token.hpp) and parse events (utils/parser.hpp).           *)
(***************************************************************************)
AnySequence == [type |-> "AnySequence", value |-> <<>>]
AnyChar == [type |-> "AnyChar", value |-> <<>>]
LiteralSequence(v) == [type |-> "LiteralSequence", value |-> v]
CharacterSet == [type |-> "CharacterSet", value |-> <<>>]

\* TOKEN_LIST: the alternatives of the Token variant.
TokenTypeIndex == {"AnySequence", "LiteralSequence", "AnyChar", "CharacterSet"}

ParseEvent(code, position, detail) ==
    [code |-> code, position |-> position, detail |-> detail]

VARIABLES
    s,                \* the text string
    p,                \* the raw pattern string
    ppc,              \* Parser::parse: "start", "loop" or "done"
    parse_i,          \* Parser::parse: the loop index i (0-based)
    tokens,           \* result.tokens
    events,           \* result.events
    literal_builder,  \* the pending literal run
    solver,           \* the solver type under test ("none" before the first)
    rec_pc,           \* RecursiveSolver: "idle", "running" or "done"
    rec_stack,        \* RecursiveSolver: the call stack of isMatch(i, j, depth)
    rec_ret,          \* RecursiveSolver: the value the last finished call returned
    rec_max_depth,    \* RecursiveSolver::max_depth
    rec_result,       \* RecursiveSolver: the result of run()
    memo_pc,          \* MemoSolver: "idle", "running" or "done"
    memo_stack,       \* MemoSolver: the call stack of isMatch(i, j, depth)
    memo_ret,         \* MemoSolver: the value the last finished call returned
    memo,             \* MemoSolver::memo
    memo_evaluated,   \* MemoSolver: the (i, j) of every call that got past the
                      \* cache check, in order (observed, not a field)
    memo_max_depth,   \* MemoSolver::max_depth
    memo_result,      \* MemoSolver: the result of run()
    dp_pc,            \* DpSolver: "idle", "row0", "fill" or "done"
    dp,               \* DpSolver::isMatch: the table dp[i][j]
    dp_i,             \* DpSolver::isMatch: the loop index i
    dp_j,             \* DpSolver::isMatch: the loop index j
    dp_result,        \* DpSolver: the result of run()
    nfa_pc,           \* NFASolver: "idle", "rows" or "done"
    nfa_dp,           \* NFASolver::isMatch: the row dp[j]
    nfa_i,            \* NFASolver::isMatch: the outer loop index i
    nfa_result,       \* NFASolver: the result of run()
    greedy_pc,        \* GreedySolver: "idle", "loop", "trailing" or "done"
    s_idx,            \* GreedySolver::isMatch: the text cursor
    p_idx,            \* GreedySolver::isMatch: the token cursor
    backtrack_point,  \* GreedySolver::isMatch: std::optional<BacktrackPoint>
    greedy_result,    \* GreedySolver: the result of run()
    space_used,       \* SolverProfile::space_used_bytes of each solver's run()
    str,              \* Validator::validateRawString: the argument
    v_pc,             \* Validator::validateRawString: "idle", "loop" or "done"
    v_i,              \* Validator::validateRawString: the loop index i
    issues,           \* Validator::validateRawString: the vector returned
    pr_pc,            \* Validator::validateParseResult: "idle", "loop" or "done"
    event_it,         \* Validator::validateParseResult: the events iterated so far
    parse_issues,     \* Validator::validateParseResult: the vector returned
    cli_pc,           \* main: the statement main is at
    solver_choice,    \* main: the key of the selected solver ("none" before)
    lines_read,       \* main: the lines read from std::cin so far
    cerr,             \* main: what processAndPrintIssues wrote to std::cerr
    exit_code,        \* main: the value returned
    parse_calls       \* ParserTest: the pattern and the result of every
                      \* Parser::parse call that returned, in order

inputVars == <<s, p>>
parseVars == <<ppc, parse_i, tokens, events, literal_builder>>
recVars == <<rec_pc, rec_stack, rec_ret, rec_max_depth, rec_result>>
memoVars == <<memo_pc, memo_stack, memo_ret, memo, memo_evaluated, memo_max_depth, memo_result>>
dpVars == <<dp_pc, dp, dp_i, dp_j, dp_result>>
nfaVars == <<nfa_pc, nfa_dp, nfa_i, nfa_result>>
greedyVars == <<greedy_pc, s_idx, p_idx, backtrack_point, greedy_result>>
solverVars == <<solver, recVars, memoVars, dpVars, nfaVars, greedyVars, space_used>>
validateVars == <<str, v_pc, v_i, issues>>
eventVars == <<pr_pc, event_it, parse_issues>>
cliVars == <<cli_pc, solver_choice, lines_read, cerr, exit_code>>
callerVars == <<eventVars, cliVars, parse_calls>>
vars == <<inputVars, parseVars, solverVars, validateVars, callerVars>>

(***************************************************************************)
(* Parser::parse                                                           *)
(***************************************************************************)
\* The flush_literal_builder lambda: the token list after the flush.
FlushLiteralBuilderAlways(toks, lb) == Append(toks, LiteralSequence(lb))
FlushLiteralBuilder(toks, lb) ==
    IF lb # <<>> THEN Append(toks, LiteralSequence(lb)) ELSE toks

\* The 1-based position i + 1 of an event raised at loop index i.
EventPositionZeroBased(idx) == idx
EventPosition(idx) == idx + 1

\* p[i] of the code, i 0-based.
CharAt(sv, idx) == sv[idx + 1]

\* case '*': whether the previous token is already an AnySequence.
PreviousIsAnySequence(toks) ==
    toks # <<>> /\ toks[Len(toks)].type = "AnySequence"

\* A "defined" escape escapes a character with special meaning.
IsDefinedEscapeAny(next_char) == TRUE
IsDefinedEscapeNone(next_char) == FALSE
IsDefinedEscape(next_char) ==
    next_char \in {Asterisk, QuestionMark, Backslash}

\* ParseResult result; the result a call of Parser::parse starts from.
StaleParseResult == [tokens |-> tokens, events |-> events]
FreshParseResult == [tokens |-> <<>>, events |-> <<>>]

ParseInit ==
    /\ ppc = "start"
    /\ parse_i = 0
    /\ tokens = <<>>
    /\ events = <<>>
    /\ literal_builder = <<>>

ParseEmptyAsAnySequence ==
    /\ ppc = "start"
    /\ p = <<>>
    /\ ppc' = "done"
    /\ tokens' = <<AnySequence>>
    /\ UNCHANGED <<parse_i, events, literal_builder>>
    /\ UNCHANGED <<callerVars, validateVars, inputVars, solverVars>>

\* if (p.empty()) return result;
ParseEmpty ==
    /\ ppc = "start"
    /\ p = <<>>
    /\ ppc' = "done"
    /\ UNCHANGED <<parse_i, tokens, events, literal_builder>>
    /\ UNCHANGED <<callerVars, validateVars, inputVars, solverVars>>

\* A non-empty pattern enters the for loop.
ParseEnterLoop ==
    /\ ppc = "start"
    /\ p # <<>>
    /\ ppc' = "loop"
    /\ UNCHANGED <<parse_i, tokens, events, literal_builder>>
    /\ UNCHANGED <<callerVars, validateVars, inputVars, solverVars>>

ParseQuestionMarkAsCharacterSet ==
    /\ ppc = "loop"
    /\ parse_i < Len(p)
    /\ CharAt(p, parse_i) = QuestionMark
    /\ tokens' = Append(FlushLiteralBuilder(tokens, literal_builder), CharacterSet)
    /\ literal_builder' = <<>>
    /\ parse_i' = parse_i + 1
    /\ UNCHANGED <<ppc, events>>
    /\ UNCHANGED <<callerVars, validateVars, inputVars, solverVars>>

\* case '?'
ParseQuestionMark ==
    /\ ppc = "loop"
    /\ parse_i < Len(p)
    /\ CharAt(p, parse_i) = QuestionMark
    /\ tokens' = Append(FlushLiteralBuilder(tokens, literal_builder), AnyChar)
    /\ literal_builder' = <<>>
    /\ parse_i' = parse_i + 1
    /\ UNCHANGED <<ppc, events>>
    /\ UNCHANGED <<callerVars, validateVars, inputVars, solverVars>>

\* case '*'
ParseAsterisk ==
    /\ ppc = "loop"
    /\ parse_i < Len(p)
    /\ CharAt(p, parse_i) = Asterisk
    /\ LET flushed == FlushLiteralBuilder(tokens, literal_builder) IN
        IF PreviousIsAnySequence(flushed)
        THEN /\ events' = Append(events,
                    ParseEvent("ConsecutiveAsterisksMerged", EventPosition(parse_i), None))
             /\ tokens' = flushed
        ELSE /\ tokens' = Append(flushed, AnySequence)
             /\ events' = events
    /\ literal_builder' = <<>>
    /\ parse_i' = parse_i + 1
    /\ UNCHANGED <<ppc>>
    /\ UNCHANGED <<callerVars, validateVars, inputVars, solverVars>>

ParseEscapeReportsNextChar ==
    /\ ppc = "loop"
    /\ parse_i < Len(p)
    /\ CharAt(p, parse_i) = Backslash
    /\ parse_i + 1 < Len(p)
    /\ LET next_char == CharAt(p, parse_i + 1) IN
        /\ events' = IF ~IsDefinedEscape(next_char)
                     THEN Append(events, ParseEvent("UndefinedEscapeSequence", EventPosition(parse_i + 1),
                                                    Some(<<next_char>>)))
                     ELSE events
        /\ literal_builder' = Append(literal_builder, next_char)
    /\ parse_i' = parse_i + 2
    /\ UNCHANGED <<ppc, tokens>>
    /\ UNCHANGED <<callerVars, validateVars, inputVars, solverVars>>

ParseEscapeStartsNewRun ==
    /\ ppc = "loop"
    /\ parse_i < Len(p)
    /\ CharAt(p, parse_i) = Backslash
    /\ parse_i + 1 < Len(p)
    /\ LET next_char == CharAt(p, parse_i + 1) IN
        /\ events' = IF ~IsDefinedEscape(next_char)
                     THEN Append(events, ParseEvent("UndefinedEscapeSequence", EventPosition(parse_i),
                                                    Some(<<next_char>>)))
                     ELSE events
        /\ tokens' = FlushLiteralBuilder(tokens, literal_builder)
        /\ literal_builder' = <<next_char>>
    /\ parse_i' = parse_i + 2
    /\ UNCHANGED <<ppc>>
    /\ UNCHANGED <<callerVars, validateVars, inputVars, solverVars>>

\* case '\\' with a next character: the escape, defined or not.
ParseEscape ==
    /\ ppc = "loop"
    /\ parse_i < Len(p)
    /\ CharAt(p, parse_i) = Backslash
    /\ parse_i + 1 < Len(p)
    /\ LET next_char == CharAt(p, parse_i + 1) IN
        /\ events' = IF ~IsDefinedEscape(next_char)
                     THEN Append(events, ParseEvent("UndefinedEscapeSequence", EventPosition(parse_i),
                                                    Some(<<next_char>>)))
                     ELSE events
        /\ literal_builder' = Append(literal_builder, next_char)
    /\ parse_i' = parse_i + 2
    /\ UNCHANGED <<ppc, tokens>>
    /\ UNCHANGED <<callerVars, validateVars, inputVars, solverVars>>

ParseTrailingBackslashAsLiteral ==
    /\ ppc = "loop"
    /\ parse_i < Len(p)
    /\ CharAt(p, parse_i) = Backslash
    /\ ~(parse_i + 1 < Len(p))
    /\ events' = Append(events, ParseEvent("TrailingBackslash", EventPosition(parse_i), None))
    /\ literal_builder' = Append(literal_builder, Backslash)
    /\ parse_i' = parse_i + 1
    /\ UNCHANGED <<ppc, tokens>>
    /\ UNCHANGED <<callerVars, validateVars, inputVars, solverVars>>

ParseTrailingBackslashThrows ==
    /\ ppc = "loop"
    /\ parse_i < Len(p)
    /\ CharAt(p, parse_i) = Backslash
    /\ ~(parse_i + 1 < Len(p))
    /\ ppc' = "aborted"
    /\ UNCHANGED <<parse_i, tokens, events, literal_builder>>
    /\ UNCHANGED <<callerVars, validateVars, inputVars, solverVars>>

\* case '\\' as the last character.
ParseTrailingBackslash ==
    /\ ppc = "loop"
    /\ parse_i < Len(p)
    /\ CharAt(p, parse_i) = Backslash
    /\ ~(parse_i + 1 < Len(p))
    /\ events' = Append(events, ParseEvent("TrailingBackslash", EventPosition(parse_i), None))
    /\ parse_i' = parse_i + 1
    /\ UNCHANGED <<ppc, tokens, literal_builder>>
    /\ UNCHANGED <<callerVars, validateVars, inputVars, solverVars>>

\* default: a standard literal character.
ParseLiteralChar ==
    /\ ppc = "loop"
    /\ parse_i < Len(p)
    /\ ~(CharAt(p, parse_i) \in {QuestionMark, Asterisk, Backslash})
    /\ literal_builder' = Append(literal_builder, CharAt(p, parse_i))
    /\ parse_i' = parse_i + 1
    /\ UNCHANGED <<ppc, tokens, events>>
    /\ UNCHANGED <<callerVars, validateVars, inputVars, solverVars>>

\* After the loop: the final flush and the return.
ParseFinish ==
    /\ ppc = "loop"
    /\ ~(parse_i < Len(p))
    /\ tokens' = FlushLiteralBuilder(tokens, literal_builder)
    /\ literal_builder' = <<>>
    /\ ppc' = "done"
    /\ UNCHANGED <<parse_i, events>>
    /\ UNCHANGED <<callerVars, validateVars, inputVars, solverVars>>

ParseNext ==
    \/ ParseEmpty
    \/ ParseEnterLoop
    \/ ParseQuestionMark
    \/ ParseAsterisk
    \/ ParseEscape
    \/ ParseTrailingBackslash
    \/ ParseLiteralChar
    \/ ParseFinish

(***************************************************************************)
(* Helpers shared by the matching strategies.                              *)
(***************************************************************************)
Max(a, b) == IF a >= b THEN a ELSE b
Min(a, b) == IF a <= b THEN a ELSE b

\* std::string_view::substr(pos, len): at most len characters from pos (0-based).
Substr(sv, pos, len) == SubSeq(sv, pos + 1, pos + Min(len, Len(sv) - pos))

\* s.compare(pos, len, literal) == 0
CompareEqual(sv, pos, len, literal) == Substr(sv, pos, len) = literal

\* p_tokens[j] of the code, j 0-based.
TokenAt(toks, j) == toks[j + 1]

\* The call stack of a recursive isMatch: one frame per active call, the
\* innermost last.  "at" is the place in the body the frame is at: "entry",
\* or the call it waits for: "branch1" and "branch2" of an AnySequence,
\* "tail" for the call of an AnyChar or a LiteralSequence.
Frame(i, j, depth) == [i |-> i, j |-> j, depth |-> depth, at |-> "entry"]
Top(stack) == stack[Len(stack)]
Pop(stack) == SubSeq(stack, 1, Len(stack) - 1)
Call(stack, at, frame) ==
    Append([stack EXCEPT ![Len(stack)].at = at], frame)

\* The solver types of the typed test, in the order they are instantiated.
SolverImplementations == <<"recursive", "memo", "dp", "nfa", "greedy">>

(***************************************************************************)
(* SolverProfile::space_used_bytes, as each solver's run() computes it     *)
(***************************************************************************)
\* The sizes of an LP64 build.
SizeofSizeT == 8
SizeofVoidPtr == 8
SizeofBool == 1
SizeofDpState == 1
SizeofOptionalBool == 2
SizeofOptionalBacktrackPoint == 24

\* space_per_frame: 2 size_t args + 1 return address.
SpacePerFrame == SizeofSizeT * 2 + SizeofVoidPtr

\* RecursiveSolver::run: max_depth * space_per_frame.
RecSpaceUsed(max_depth) == max_depth * SpacePerFrame

\* MemoSolver::run: memo_space + stack_space.
MemoSpaceUsed(m, n, max_depth) ==
    (m + 1) * (n + 1) * SizeofOptionalBool + max_depth * SpacePerFrame

\* DpSolver::run: the (m+1) x (n+1) table.
DpSpaceUsedOneRow(m, n) == (n + 1) * SizeofDpState
DpSpaceUsed(m, n) == (m + 1) * (n + 1) * SizeofDpState

\* NFASolver::run: the row of size n + 1, n the length of the raw pattern.
NfaSpaceUsed(n) == (n + 1) * SizeofBool

\* GreedySolver::run: the two indices and the optional backtrack point.
GreedySpaceUsed == SizeofSizeT * 2 + SizeofOptionalBacktrackPoint

(***************************************************************************)
(* RecursiveSolver (solvers/recursive.hpp)                                 *)
(***************************************************************************)
\* case LITERAL_SEQUENCE: the remaining text is long enough and matches.
RecLiteralMatchesStrict(text, i, literal) ==
    /\ i + Len(literal) < Len(text)
    /\ CompareEqual(text, i, Len(literal), literal)
RecLiteralMatches(text, i, literal) ==
    /\ i + Len(literal) <= Len(text)
    /\ CompareEqual(text, i, Len(literal), literal)

RecStartAtDepthOne ==
    /\ solver = "recursive"
    /\ rec_pc = "idle"
    /\ rec_pc' = "running"
    /\ rec_max_depth' = 0
    /\ rec_stack' = <<Frame(0, 0, 1)>>
    /\ rec_ret' = None
    /\ UNCHANGED <<rec_result>>
    /\ UNCHANGED <<callerVars, validateVars, inputVars, parseVars, space_used, solver, memoVars, dpVars, nfaVars, greedyVars>>

\* The constructor and run()'s call isMatch(0, 0, 0).
RecStart ==
    /\ solver = "recursive"
    /\ rec_pc = "idle"
    /\ rec_pc' = "running"
    /\ rec_max_depth' = 0
    /\ rec_stack' = <<Frame(0, 0, 0)>>
    /\ rec_ret' = None
    /\ UNCHANGED <<rec_result>>
    /\ UNCHANGED <<callerVars, validateVars, inputVars, parseVars, space_used, solver, memoVars, dpVars, nfaVars, greedyVars>>

\* The function entry with j == n: return i == m.
RecPatternExhausted ==
    /\ rec_pc = "running"
    /\ rec_stack # <<>>
    /\ LET f == Top(rec_stack) IN
        /\ f.at = "entry"
        /\ f.j = Len(tokens)
        /\ rec_max_depth' = Max(rec_max_depth, f.depth)
        /\ rec_ret' = Some(f.i = Len(s))
        /\ rec_stack' = Pop(rec_stack)
    /\ UNCHANGED <<rec_pc, rec_result>>
    /\ UNCHANGED <<callerVars, validateVars, inputVars, parseVars, space_used, solver, memoVars, dpVars, nfaVars, greedyVars>>

\* case ANY_SEQUENCE: the first branch, isMatch(i, j + 1, depth + 1).
RecAnySequence ==
    /\ rec_pc = "running"
    /\ rec_stack # <<>>
    /\ LET f == Top(rec_stack) IN
        /\ f.at = "entry"
        /\ f.j < Len(tokens)
        /\ TokenAt(tokens, f.j).type = "AnySequence"
        /\ rec_max_depth' = Max(rec_max_depth, f.depth)
        /\ rec_stack' = Call(rec_stack, "branch1", Frame(f.i, f.j + 1, f.depth + 1))
    /\ UNCHANGED <<rec_pc, rec_ret, rec_result>>
    /\ UNCHANGED <<callerVars, validateVars, inputVars, parseVars, space_used, solver, memoVars, dpVars, nfaVars, greedyVars>>

\* case ANY_SEQUENCE after the first branch returned: true ends the ||, false
\* goes on to (i < m && isMatch(i + 1, j, depth + 1)).
RecAnySequenceSecond ==
    /\ rec_pc = "running"
    /\ rec_stack # <<>>
    /\ LET f == Top(rec_stack) IN
        /\ f.at = "branch1"
        /\ IF rec_ret = Some(TRUE)
           THEN /\ rec_stack' = Pop(rec_stack)
                /\ rec_ret' = Some(TRUE)
           ELSE IF f.i < Len(s)
           THEN /\ rec_stack' = Call(rec_stack, "branch2", Frame(f.i + 1, f.j, f.depth + 1))
                /\ rec_ret' = None
           ELSE /\ rec_stack' = Pop(rec_stack)
                /\ rec_ret' = Some(FALSE)
    /\ UNCHANGED <<rec_pc, rec_max_depth, rec_result>>
    /\ UNCHANGED <<callerVars, validateVars, inputVars, parseVars, space_used, solver, memoVars, dpVars, nfaVars, greedyVars>>

\* case ANY_CHAR: i < m && isMatch(i + 1, j + 1, depth + 1)
RecAnyChar ==
    /\ rec_pc = "running"
    /\ rec_stack # <<>>
    /\ LET f == Top(rec_stack) IN
        /\ f.at = "entry"
        /\ f.j < Len(tokens)
        /\ TokenAt(tokens, f.j).type = "AnyChar"
        /\ rec_max_depth' = Max(rec_max_depth, f.depth)
        /\ IF f.i < Len(s)
           THEN /\ rec_stack' = Call(rec_stack, "tail", Frame(f.i + 1, f.j + 1, f.depth + 1))
                /\ rec_ret' = rec_ret
           ELSE /\ rec_stack' = Pop(rec_stack)
                /\ rec_ret' = Some(FALSE)
    /\ UNCHANGED <<rec_pc, rec_result>>
    /\ UNCHANGED <<callerVars, validateVars, inputVars, parseVars, space_used, solver, memoVars, dpVars, nfaVars, greedyVars>>

\* case LITERAL_SEQUENCE: on a match isMatch(i + literal_len, j + 1, depth + 1),
\* otherwise the break and the final return false.
RecLiteralSequence ==
    /\ rec_pc = "running"
    /\ rec_stack # <<>>
    /\ LET f == Top(rec_stack) IN
        /\ f.at = "entry"
        /\ f.j < Len(tokens)
        /\ TokenAt(tokens, f.j).type = "LiteralSequence"
        /\ rec_max_depth' = Max(rec_max_depth, f.depth)
        /\ LET literal == TokenAt(tokens, f.j).value IN
            IF RecLiteralMatches(s, f.i, literal)
            THEN /\ rec_stack' = Call(rec_stack, "tail",
                                      Frame(f.i + Len(literal), f.j + 1, f.depth + 1))
                 /\ rec_ret' = rec_ret
            ELSE /\ rec_stack' = Pop(rec_stack)
                 /\ rec_ret' = Some(FALSE)
    /\ UNCHANGED <<rec_pc, rec_result>>
    /\ UNCHANGED <<callerVars, validateVars, inputVars, parseVars, space_used, solver, memoVars, dpVars, nfaVars, greedyVars>>

\* return isMatch(...): the frame returns what its last call returned.
RecReturnCall ==
    /\ rec_pc = "running"
    /\ rec_stack # <<>>
    /\ Top(rec_stack).at \in {"branch2", "tail"}
    /\ rec_stack' = Pop(rec_stack)
    /\ UNCHANGED <<rec_pc, rec_ret, rec_max_depth, rec_result>>
    /\ UNCHANGED <<callerVars, validateVars, inputVars, parseVars, space_used, solver, memoVars, dpVars, nfaVars, greedyVars>>

\* run(): bool result = isMatch(0, 0, 0) has returned.
RecFinish ==
    /\ rec_pc = "running"
    /\ rec_stack = <<>>
    /\ rec_result' = rec_ret
    /\ rec_pc' = "done"
    /\ space_used' = [space_used EXCEPT !["recursive"] = Some(RecSpaceUsed(rec_max_depth))]
    /\ UNCHANGED <<rec_stack, rec_ret, rec_max_depth>>
    /\ UNCHANGED <<callerVars, validateVars, inputVars, parseVars, solver, memoVars, dpVars, nfaVars, greedyVars>>

RecNext ==
    \/ RecStart
    \/ RecPatternExhausted
    \/ RecAnySequence
    \/ RecAnySequenceSecond
    \/ RecAnyChar
    \/ RecLiteralSequence
    \/ RecReturnCall
    \/ RecFinish

\* The value isMatch(i, j, depth) returns, as a function of i and j.
RECURSIVE RecIsMatch(_, _, _, _)
RecIsMatch(text, toks, i, j) ==
    IF j = Len(toks) THEN i = Len(text)
    ELSE LET current_token == TokenAt(toks, j) IN
         CASE current_token.type = "AnySequence" ->
                \/ RecIsMatch(text, toks, i, j + 1)
                \/ (i < Len(text) /\ RecIsMatch(text, toks, i + 1, j))
           [] current_token.type = "AnyChar" ->
                i < Len(text) /\ RecIsMatch(text, toks, i + 1, j + 1)
           [] current_token.type = "LiteralSequence" ->
                /\ RecLiteralMatches(text, i, current_token.value)
                /\ RecIsMatch(text, toks, i + Len(current_token.value), j + 1)

(***************************************************************************)
(* MemoSolver (solvers/memo.hpp)                                           *)
(***************************************************************************)
\* The LiteralSequence branch: enough characters remain and they match.
MemoLiteralMatches(text, i, literal) ==
    /\ i + Len(literal) <= Len(text)
    /\ CompareEqual(text, i, Len(literal), literal)

MemoStoreNothing(table, f, ans) == table

\* The visitor falls through every if constexpr branch to APP_UNREACHABLE.
MemoUnreachable(token) ==
    token.type \notin {"AnySequence", "AnyChar", "LiteralSequence"}

\* return *(memo[i][j] = ans) of the frame f.
MemoStore(table, f, ans) == [table EXCEPT ![f.i][f.j] = Some(ans)]

\* The constructor (memo filled with nullopt) and run()'s call isMatch(0, 0, 0).
MemoStart ==
    /\ solver = "memo"
    /\ memo_pc = "idle"
    /\ memo_pc' = "running"
    /\ memo' = [i \in 0..Len(s) |-> [j \in 0..Len(tokens) |-> None]]
    /\ memo_evaluated' = <<>>
    /\ memo_max_depth' = 0
    /\ memo_stack' = <<Frame(0, 0, 0)>>
    /\ memo_ret' = None
    /\ UNCHANGED <<memo_result>>
    /\ UNCHANGED <<callerVars, validateVars, inputVars, parseVars, space_used, solver, recVars, dpVars, nfaVars, greedyVars>>

\* The subproblem is already solved: return the cached result.
MemoCached ==
    /\ memo_pc = "running"
    /\ memo_stack # <<>>
    /\ LET f == Top(memo_stack) IN
        /\ f.at = "entry"
        /\ memo[f.i][f.j] # None
        /\ memo_max_depth' = Max(memo_max_depth, f.depth)
        /\ memo_ret' = memo[f.i][f.j]
        /\ memo_stack' = Pop(memo_stack)
    /\ UNCHANGED <<memo_pc, memo, memo_evaluated, memo_result>>
    /\ UNCHANGED <<callerVars, validateVars, inputVars, parseVars, space_used, solver, recVars, dpVars, nfaVars, greedyVars>>

\* Base case j == n: ans = (i == m).
MemoPatternExhausted ==
    /\ memo_pc = "running"
    /\ memo_stack # <<>>
    /\ LET f == Top(memo_stack) IN
        /\ f.at = "entry"
        /\ memo[f.i][f.j] = None
        /\ f.j = Len(tokens)
        /\ memo_evaluated' = Append(memo_evaluated, <<f.i, f.j>>)
        /\ memo_max_depth' = Max(memo_max_depth, f.depth)
        /\ memo' = MemoStore(memo, f, f.i = Len(s))
        /\ memo_ret' = Some(f.i = Len(s))
        /\ memo_stack' = Pop(memo_stack)
    /\ UNCHANGED <<memo_pc, memo_result>>
    /\ UNCHANGED <<callerVars, validateVars, inputVars, parseVars, space_used, solver, recVars, dpVars, nfaVars, greedyVars>>

\* AnySequence: the first branch, isMatch(i, j + 1, depth + 1).
MemoAnySequence ==
    /\ memo_pc = "running"
    /\ memo_stack # <<>>
    /\ LET f == Top(memo_stack) IN
        /\ f.at = "entry"
        /\ memo[f.i][f.j] = None
        /\ f.j < Len(tokens)
        /\ TokenAt(tokens, f.j).type = "AnySequence"
        /\ memo_evaluated' = Append(memo_evaluated, <<f.i, f.j>>)
        /\ memo_max_depth' = Max(memo_max_depth, f.depth)
        /\ memo_stack' = Call(memo_stack, "branch1", Frame(f.i, f.j + 1, f.depth + 1))
    /\ UNCHANGED <<memo_pc, memo_ret, memo, memo_result>>
    /\ UNCHANGED <<callerVars, validateVars, inputVars, parseVars, space_used, solver, recVars, dpVars, nfaVars, greedyVars>>

\* AnySequence after the first branch returned: true ends the ||, false goes on
\* to (i < m && isMatch(i + 1, j, depth + 1)).
MemoAnySequenceSecond ==
    /\ memo_pc = "running"
    /\ memo_stack # <<>>
    /\ LET f == Top(memo_stack) IN
        /\ f.at = "branch1"
        /\ IF memo_ret = Some(TRUE)
           THEN /\ memo' = MemoStore(memo, f, TRUE)
                /\ memo_stack' = Pop(memo_stack)
                /\ memo_ret' = Some(TRUE)
           ELSE IF f.i < Len(s)
           THEN /\ memo_stack' = Call(memo_stack, "branch2",
                                      Frame(f.i + 1, f.j, f.depth + 1))
                /\ memo_ret' = None
                /\ memo' = memo
           ELSE /\ memo' = MemoStore(memo, f, FALSE)
                /\ memo_stack' = Pop(memo_stack)
                /\ memo_ret' = Some(FALSE)
    /\ UNCHANGED <<memo_pc, memo_evaluated, memo_max_depth, memo_result>>
    /\ UNCHANGED <<callerVars, validateVars, inputVars, parseVars, space_used, solver, recVars, dpVars, nfaVars, greedyVars>>

\* AnyChar: i < m && isMatch(i + 1, j + 1, depth + 1)
MemoAnyChar ==
    /\ memo_pc = "running"
    /\ memo_stack # <<>>
    /\ LET f == Top(memo_stack) IN
        /\ f.at = "entry"
        /\ memo[f.i][f.j] = None
        /\ f.j < Len(tokens)
        /\ TokenAt(tokens, f.j).type = "AnyChar"
        /\ memo_evaluated' = Append(memo_evaluated, <<f.i, f.j>>)
        /\ memo_max_depth' = Max(memo_max_depth, f.depth)
        /\ IF f.i < Len(s)
           THEN /\ memo_stack' = Call(memo_stack, "tail",
                                      Frame(f.i + 1, f.j + 1, f.depth + 1))
                /\ memo_ret' = memo_ret
                /\ memo' = memo
           ELSE /\ memo' = MemoStore(memo, f, FALSE)
                /\ memo_stack' = Pop(memo_stack)
                /\ memo_ret' = Some(FALSE)
    /\ UNCHANGED <<memo_pc, memo_result>>
    /\ UNCHANGED <<callerVars, validateVars, inputVars, parseVars, space_used, solver, recVars, dpVars, nfaVars, greedyVars>>

\* LiteralSequence: on a match isMatch(i + literal_len, j + 1, depth + 1),
\* otherwise false.
MemoLiteralSequence ==
    /\ memo_pc = "running"
    /\ memo_stack # <<>>
    /\ LET f == Top(memo_stack) IN
        /\ f.at = "entry"
        /\ memo[f.i][f.j] = None
        /\ f.j < Len(tokens)
        /\ TokenAt(tokens, f.j).type = "LiteralSequence"
        /\ memo_evaluated' = Append(memo_evaluated, <<f.i, f.j>>)
        /\ memo_max_depth' = Max(memo_max_depth, f.depth)
        /\ LET literal == TokenAt(tokens, f.j).value IN
            IF MemoLiteralMatches(s, f.i, literal)
            THEN /\ memo_stack' = Call(memo_stack, "tail",
                                       Frame(f.i + Len(literal), f.j + 1, f.depth + 1))
                 /\ memo_ret' = memo_ret
                 /\ memo' = memo
            ELSE /\ memo' = MemoStore(memo, f, FALSE)
                 /\ memo_stack' = Pop(memo_stack)
                 /\ memo_ret' = Some(FALSE)
    /\ UNCHANGED <<memo_pc, memo_result>>
    /\ UNCHANGED <<callerVars, validateVars, inputVars, parseVars, space_used, solver, recVars, dpVars, nfaVars, greedyVars>>

\* The frame's last call returned: ans is its value, stored and returned.
MemoReturnCall ==
    /\ memo_pc = "running"
    /\ memo_stack # <<>>
    /\ LET f == Top(memo_stack) IN
        /\ f.at \in {"branch2", "tail"}
        /\ memo' = MemoStore(memo, f, memo_ret[1])
        /\ memo_stack' = Pop(memo_stack)
    /\ UNCHANGED <<memo_pc, memo_ret, memo_evaluated, memo_max_depth, memo_result>>
    /\ UNCHANGED <<callerVars, validateVars, inputVars, parseVars, space_used, solver, recVars, dpVars, nfaVars, greedyVars>>

\* run(): bool result = isMatch(0, 0, 0) has returned.
MemoFinish ==
    /\ memo_pc = "running"
    /\ memo_stack = <<>>
    /\ memo_result' = memo_ret
    /\ memo_pc' = "done"
    /\ space_used' = [space_used EXCEPT !["memo"] = Some(MemoSpaceUsed(Len(s), Len(tokens), memo_max_depth))]
    /\ UNCHANGED <<memo_stack, memo_ret, memo, memo_evaluated, memo_max_depth>>
    /\ UNCHANGED <<callerVars, validateVars, inputVars, parseVars, solver, recVars, dpVars, nfaVars, greedyVars>>

MemoNext ==
    \/ MemoStart
    \/ MemoCached
    \/ MemoPatternExhausted
    \/ MemoAnySequence
    \/ MemoAnySequenceSecond
    \/ MemoAnyChar
    \/ MemoLiteralSequence
    \/ MemoReturnCall
    \/ MemoFinish

(***************************************************************************)
(* DpSolver (src/solvers/dp.cpp)                                           *)
(***************************************************************************)
\* The value the lambda returns for dp[i][j], i >= 1 and j >= 1.
DpCellAnyCharMatchesEmpty(table, text, toks, i, j) ==
    LET current_token == toks[j] IN
    CASE current_token.type = "AnySequence" ->
            IF table[i][j - 1] = "Match" \/ table[i - 1][j] = "Match"
            THEN "Match" ELSE "NoMatch"
      [] current_token.type = "AnyChar" -> table[i][j - 1]
      [] current_token.type = "LiteralSequence" ->
            LET literal == current_token.value
                literal_len == Len(literal) IN
            IF i >= literal_len /\ CompareEqual(text, i - literal_len, literal_len, literal)
            THEN table[i - literal_len][j - 1]
            ELSE "NoMatch"
DpCellStarMatchesEmptyOnly(table, text, toks, i, j) ==
    LET current_token == toks[j] IN
    CASE current_token.type = "AnySequence" -> table[i][j - 1]
      [] current_token.type = "AnyChar" -> table[i - 1][j - 1]
      [] current_token.type = "LiteralSequence" ->
            LET literal == current_token.value
                literal_len == Len(literal) IN
            IF i >= literal_len /\ CompareEqual(text, i - literal_len, literal_len, literal)
            THEN table[i - literal_len][j - 1]
            ELSE "NoMatch"
DpCell(table, text, toks, i, j) ==
    LET current_token == toks[j] IN
    CASE current_token.type = "AnySequence" ->
            IF table[i][j - 1] = "Match" \/ table[i - 1][j] = "Match"
            THEN "Match" ELSE "NoMatch"
      [] current_token.type = "AnyChar" -> table[i - 1][j - 1]
      [] current_token.type = "LiteralSequence" ->
            LET literal == current_token.value
                literal_len == Len(literal) IN
            IF i >= literal_len /\ CompareEqual(text, i - literal_len, literal_len, literal)
            THEN table[i - literal_len][j - 1]
            ELSE "NoMatch"
      [] OTHER -> "Unreachable"

\* The constructor, the table filled with NoMatch, and dp[0][0] = Match.
DpStart ==
    /\ solver = "dp"
    /\ dp_pc = "idle"
    /\ dp_pc' = "row0"
    /\ dp' = [i \in 0..Len(s) |->
                [j \in 0..Len(tokens) |-> IF i = 0 /\ j = 0 THEN "Match" ELSE "NoMatch"]]
    /\ dp_i' = 0
    /\ dp_j' = 1
    /\ UNCHANGED <<dp_result>>
    /\ UNCHANGED <<callerVars, validateVars, inputVars, parseVars, space_used, solver, recVars, memoVars, nfaVars, greedyVars>>

\* One iteration of the loop over the row of the empty text.
DpEmptyTextRow ==
    /\ dp_pc = "row0"
    /\ dp_j <= Len(tokens)
    /\ dp' = IF tokens[dp_j].type = "AnySequence"
             THEN [dp EXCEPT ![0][dp_j] = dp[0][dp_j - 1]]
             ELSE dp
    /\ dp_j' = dp_j + 1
    /\ UNCHANGED <<dp_pc, dp_i, dp_result>>
    /\ UNCHANGED <<callerVars, validateVars, inputVars, parseVars, space_used, solver, recVars, memoVars, nfaVars, greedyVars>>

\* The first loop ends; the fill starts at i = 1, j = 1.
DpStartFill ==
    /\ dp_pc = "row0"
    /\ ~(dp_j <= Len(tokens))
    /\ dp_pc' = "fill"
    /\ dp_i' = 1
    /\ dp_j' = 1
    /\ UNCHANGED <<dp, dp_result>>
    /\ UNCHANGED <<callerVars, validateVars, inputVars, parseVars, space_used, solver, recVars, memoVars, nfaVars, greedyVars>>

\* One iteration of the inner loop: dp[i][j] is assigned.
DpFillCell ==
    /\ dp_pc = "fill"
    /\ dp_i <= Len(s)
    /\ dp_j <= Len(tokens)
    /\ dp' = [dp EXCEPT ![dp_i][dp_j] = DpCell(dp, s, tokens, dp_i, dp_j)]
    /\ dp_j' = dp_j + 1
    /\ UNCHANGED <<dp_pc, dp_i, dp_result>>
    /\ UNCHANGED <<callerVars, validateVars, inputVars, parseVars, space_used, solver, recVars, memoVars, nfaVars, greedyVars>>

\* The inner loop ends: the next i.
DpNextRow ==
    /\ dp_pc = "fill"
    /\ dp_i <= Len(s)
    /\ ~(dp_j <= Len(tokens))
    /\ dp_i' = dp_i + 1
    /\ dp_j' = 1
    /\ UNCHANGED <<dp_pc, dp, dp_result>>
    /\ UNCHANGED <<callerVars, validateVars, inputVars, parseVars, space_used, solver, recVars, memoVars, nfaVars, greedyVars>>

\* return dp[m][n] == DpState::Match
DpFinish ==
    /\ dp_pc = "fill"
    /\ ~(dp_i <= Len(s))
    /\ dp_result' = Some(dp[Len(s)][Len(tokens)] = "Match")
    /\ dp_pc' = "done"
    /\ space_used' = [space_used EXCEPT !["dp"] = Some(DpSpaceUsed(Len(s), Len(tokens)))]
    /\ UNCHANGED <<dp, dp_i, dp_j>>
    /\ UNCHANGED <<callerVars, validateVars, inputVars, parseVars, solver, recVars, memoVars, nfaVars, greedyVars>>

DpNext ==
    \/ DpStart
    \/ DpEmptyTextRow
    \/ DpStartFill
    \/ DpFillCell
    \/ DpNextRow
    \/ DpFinish

(***************************************************************************)
(* NFASolver (nfa_solver.hpp): the single-row strategy, on the raw pattern *)
(***************************************************************************)
\* The loop over j that initialises the row for the empty text, from j on.
RECURSIVE NfaEmptyTextRow(_, _, _)
NfaEmptyTextRow(row, pat, j) ==
    IF j > Len(pat) THEN row
    ELSE NfaEmptyTextRow(
            IF pat[j] = Asterisk THEN [row EXCEPT ![j] = row[j - 1]] ELSE row,
            pat, j + 1)

\* The inner loop over j of the outer iteration i, from j on; pre is the
\* value of dp[j - 1] before this iteration.
RECURSIVE NfaInnerLoop(_, _, _, _, _, _)
NfaInnerLoop(row, pre, text, pat, i, j) ==
    IF j > Len(pat) THEN row
    ELSE LET temp == row[j]
             new == IF pat[j] = Asterisk THEN row[j - 1] \/ row[j]
                    ELSE IF pat[j] = QuestionMark \/ pat[j] = text[i] THEN pre
                    ELSE FALSE
         IN NfaInnerLoop([row EXCEPT ![j] = new], temp, text, pat, i, j + 1)

NfaProcessCharStalePre(row, text, pat, i) ==
    NfaInnerLoop([row EXCEPT ![0] = FALSE], FALSE, text, pat, i, 1)

\* One iteration of the outer loop: pre = dp[0], dp[0] = false, the inner loop.
NfaProcessChar(row, text, pat, i) ==
    NfaInnerLoop([row EXCEPT ![0] = FALSE], row[0], text, pat, i, 1)

\* The constructor and the row for the empty text.
NfaStart ==
    /\ solver = "nfa"
    /\ nfa_pc = "idle"
    /\ nfa_pc' = "rows"
    /\ nfa_dp' = NfaEmptyTextRow([j \in 0..Len(p) |-> j = 0], p, 1)
    /\ nfa_i' = 1
    /\ UNCHANGED <<nfa_result>>
    /\ UNCHANGED <<callerVars, validateVars, inputVars, parseVars, space_used, solver, recVars, memoVars, dpVars, greedyVars>>

\* One character of s is processed.
NfaStep ==
    /\ nfa_pc = "rows"
    /\ nfa_i <= Len(s)
    /\ nfa_dp' = NfaProcessChar(nfa_dp, s, p, nfa_i)
    /\ nfa_i' = nfa_i + 1
    /\ UNCHANGED <<nfa_pc, nfa_result>>
    /\ UNCHANGED <<callerVars, validateVars, inputVars, parseVars, space_used, solver, recVars, memoVars, dpVars, greedyVars>>

\* return dp[n]
NfaFinish ==
    /\ nfa_pc = "rows"
    /\ ~(nfa_i <= Len(s))
    /\ nfa_result' = Some(nfa_dp[Len(p)])
    /\ nfa_pc' = "done"
    /\ space_used' = [space_used EXCEPT !["nfa"] = Some(NfaSpaceUsed(Len(p)))]
    /\ UNCHANGED <<nfa_dp, nfa_i>>
    /\ UNCHANGED <<callerVars, validateVars, inputVars, parseVars, solver, recVars, memoVars, dpVars, greedyVars>>

NfaNext ==
    \/ NfaStart
    \/ NfaStep
    \/ NfaFinish

(***************************************************************************)
(* DpSolver (src/include/dp_solver.hpp): the dense DP on the raw pattern   *)
(***************************************************************************)
\* std::vector<std::vector<bool>> dp(m + 1, std::vector<bool>(n + 1, false))
\* and dp[0][0] = true.
RawDpInitialTable(text, pat) ==
    [i \in 0..Len(text) |-> [j \in 0..Len(pat) |-> i = 0 /\ j = 0]]

\* The loop over j that fills the row of the empty text, from j on.
RECURSIVE RawDpEmptyTextRow(_, _, _)
RawDpEmptyTextRow(table, pat, j) ==
    IF j > Len(pat) THEN table
    ELSE RawDpEmptyTextRow(
            IF pat[j] = Asterisk
            THEN [table EXCEPT ![0][j] = table[0][j - 1]]
            ELSE table,
            pat, j + 1)

\* The nested loops over i and j that fill the table, from cell (i, j) on.
RECURSIVE RawDpFill(_, _, _, _, _)
RawDpFill(table, text, pat, i, j) ==
    IF i > Len(text) THEN table
    ELSE IF j > Len(pat) THEN RawDpFill(table, text, pat, i + 1, 1)
    ELSE RawDpFill(
            IF pat[j] = Asterisk
            THEN [table EXCEPT ![i][j] = table[i][j - 1] \/ table[i - 1][j]]
            ELSE IF pat[j] = QuestionMark \/ pat[j] = text[i]
            THEN [table EXCEPT ![i][j] = table[i - 1][j - 1]]
            ELSE table,
            text, pat, i, j + 1)

\* The table at the return statement.
RawDpTable(text, pat) ==
    RawDpFill(RawDpEmptyTextRow(RawDpInitialTable(text, pat), pat, 1), text, pat, 1, 1)

\* return dp[m][n]
RawDpIsMatch(text, pat) == RawDpTable(text, pat)[Len(text)][Len(pat)]

(***************************************************************************)
(* GreedySolver (src/include/greedy_solver.hpp): the greedy strategy on    *)
(* the raw pattern                                                         *)
(***************************************************************************)
\* std::string_view::npos, the value of star_p_idx before any '*' is seen.
StarNpos == -1

\* The loop that consumes the trailing '*' of p, and the return.
RECURSIVE RawGreedyTrailing(_, _)
RawGreedyTrailing(pat, pi) ==
    IF pi < Len(pat) /\ CharAt(pat, pi) = Asterisk
    THEN RawGreedyTrailing(pat, pi + 1)
    ELSE pi = Len(pat)

\* The main loop, from the state (s_idx, p_idx, star_p_idx, s_match_idx) on.
RECURSIVE RawGreedyLoop(_, _, _, _, _, _)
RawGreedyLoop(text, pat, si, pi, star, s_match) ==
    IF si < Len(text)
    THEN IF pi < Len(pat)
            /\ (CharAt(pat, pi) = QuestionMark \/ CharAt(pat, pi) = CharAt(text, si))
         THEN RawGreedyLoop(text, pat, si + 1, pi + 1, star, s_match)
         ELSE IF pi < Len(pat) /\ CharAt(pat, pi) = Asterisk
         THEN RawGreedyLoop(text, pat, si, pi + 1, pi, si)
         ELSE IF star # StarNpos
         THEN RawGreedyLoop(text, pat, s_match + 1, star + 1, star, s_match + 1)
         ELSE FALSE
    ELSE RawGreedyTrailing(pat, pi)

\* isMatch(s, p)
RawGreedyIsMatch(text, pat) == RawGreedyLoop(text, pat, 0, 0, StarNpos, 0)

(***************************************************************************)
(* GreedySolver (src/solvers/greedy.cpp)                                   *)
(***************************************************************************)
BacktrackPoint(star_p_idx, s_match_idx) ==
    [star_p_idx |-> star_p_idx, s_match_idx |-> s_match_idx]

\* case LiteralSequence: the literal fits in the rest of the text and matches.
GreedyLiteralMatchesFirstChar(text, idx, literal) == text[idx + 1] = literal[1]
GreedyLiteralMatches(text, idx, literal) ==
    /\ Len(text) - idx >= Len(literal)
    /\ CompareEqual(text, idx, Len(literal), literal)

\* The switch left without a continue: no token is left, or a literal that
\* does not match.
GreedyNoDirectMatch ==
    \/ ~(p_idx < Len(tokens))
    \/ /\ p_idx < Len(tokens)
       /\ TokenAt(tokens, p_idx).type = "LiteralSequence"
       /\ ~GreedyLiteralMatches(s, s_idx, TokenAt(tokens, p_idx).value)

\* The constructor and the locals of isMatch.
GreedyStart ==
    /\ solver = "greedy"
    /\ greedy_pc = "idle"
    /\ greedy_pc' = "loop"
    /\ s_idx' = 0
    /\ p_idx' = 0
    /\ backtrack_point' = None
    /\ UNCHANGED <<greedy_result>>
    /\ UNCHANGED <<callerVars, validateVars, inputVars, parseVars, space_used, solver, recVars, memoVars, dpVars, nfaVars>>

\* case AnyChar
GreedyAnyChar ==
    /\ greedy_pc = "loop"
    /\ s_idx < Len(s)
    /\ p_idx < Len(tokens)
    /\ TokenAt(tokens, p_idx).type = "AnyChar"
    /\ s_idx' = s_idx + 1
    /\ p_idx' = p_idx + 1
    /\ UNCHANGED <<greedy_pc, backtrack_point, greedy_result>>
    /\ UNCHANGED <<callerVars, validateVars, inputVars, parseVars, space_used, solver, recVars, memoVars, dpVars, nfaVars>>

\* case LiteralSequence, the literal matches.
GreedyLiteralSequence ==
    /\ greedy_pc = "loop"
    /\ s_idx < Len(s)
    /\ p_idx < Len(tokens)
    /\ TokenAt(tokens, p_idx).type = "LiteralSequence"
    /\ GreedyLiteralMatches(s, s_idx, TokenAt(tokens, p_idx).value)
    /\ s_idx' = s_idx + Len(TokenAt(tokens, p_idx).value)
    /\ p_idx' = p_idx + 1
    /\ UNCHANGED <<greedy_pc, backtrack_point, greedy_result>>
    /\ UNCHANGED <<callerVars, validateVars, inputVars, parseVars, space_used, solver, recVars, memoVars, dpVars, nfaVars>>

GreedyAnySequenceRecordsStart ==
    /\ greedy_pc = "loop"
    /\ s_idx < Len(s)
    /\ p_idx < Len(tokens)
    /\ TokenAt(tokens, p_idx).type = "AnySequence"
    /\ backtrack_point' = Some(BacktrackPoint(p_idx, 0))
    /\ p_idx' = p_idx + 1
    /\ UNCHANGED <<greedy_pc, s_idx, greedy_result>>
    /\ UNCHANGED <<callerVars, validateVars, inputVars, parseVars, space_used, solver, recVars, memoVars, dpVars, nfaVars>>

\* case AnySequence: the backtrack point is recorded.
GreedyAnySequence ==
    /\ greedy_pc = "loop"
    /\ s_idx < Len(s)
    /\ p_idx < Len(tokens)
    /\ TokenAt(tokens, p_idx).type = "AnySequence"
    /\ backtrack_point' = Some(BacktrackPoint(p_idx, s_idx))
    /\ p_idx' = p_idx + 1
    /\ UNCHANGED <<greedy_pc, s_idx, greedy_result>>
    /\ UNCHANGED <<callerVars, validateVars, inputVars, parseVars, space_used, solver, recVars, memoVars, dpVars, nfaVars>>

GreedyBacktrackSamePosition ==
    /\ greedy_pc = "loop"
    /\ s_idx < Len(s)
    /\ GreedyNoDirectMatch
    /\ backtrack_point # None
    /\ p_idx' = backtrack_point[1].star_p_idx + 1
    /\ s_idx' = backtrack_point[1].s_match_idx
    /\ UNCHANGED <<greedy_pc, backtrack_point, greedy_result>>
    /\ UNCHANGED <<callerVars, validateVars, inputVars, parseVars, space_used, solver, recVars, memoVars, dpVars, nfaVars>>

GreedyBacktrackRestartsPattern ==
    /\ greedy_pc = "loop"
    /\ s_idx < Len(s)
    /\ GreedyNoDirectMatch
    /\ backtrack_point # None
    /\ p_idx' = 0
    /\ backtrack_point' =
            Some(BacktrackPoint(backtrack_point[1].star_p_idx,
                                backtrack_point[1].s_match_idx + 1))
    /\ s_idx' = backtrack_point[1].s_match_idx + 1
    /\ UNCHANGED <<greedy_pc, greedy_result>>
    /\ UNCHANGED <<callerVars, validateVars, inputVars, parseVars, space_used, solver, recVars, memoVars, dpVars, nfaVars>>

\* Case 2: a mismatch with a backtrack point.
GreedyBacktrack ==
    /\ greedy_pc = "loop"
    /\ s_idx < Len(s)
    /\ GreedyNoDirectMatch
    /\ backtrack_point # None
    /\ p_idx' = backtrack_point[1].star_p_idx + 1
    /\ backtrack_point' =
            Some(BacktrackPoint(backtrack_point[1].star_p_idx,
                                backtrack_point[1].s_match_idx + 1))
    /\ s_idx' = backtrack_point[1].s_match_idx + 1
    /\ UNCHANGED <<greedy_pc, greedy_result>>
    /\ UNCHANGED <<callerVars, validateVars, inputVars, parseVars, space_used, solver, recVars, memoVars, dpVars, nfaVars>>

\* Case 3: a mismatch with no backtrack point: return false.
GreedyMismatch ==
    /\ greedy_pc = "loop"
    /\ s_idx < Len(s)
    /\ GreedyNoDirectMatch
    /\ backtrack_point = None
    /\ greedy_result' = Some(FALSE)
    /\ greedy_pc' = "done"
    /\ space_used' = [space_used EXCEPT !["greedy"] = Some(GreedySpaceUsed)]
    /\ UNCHANGED <<s_idx, p_idx, backtrack_point>>
    /\ UNCHANGED <<callerVars, validateVars, inputVars, parseVars, solver, recVars, memoVars, dpVars, nfaVars>>

\* The text is exhausted: the main loop ends.
GreedyTextExhausted ==
    /\ greedy_pc = "loop"
    /\ ~(s_idx < Len(s))
    /\ greedy_pc' = "trailing"
    /\ UNCHANGED <<s_idx, p_idx, backtrack_point, greedy_result>>
    /\ UNCHANGED <<callerVars, validateVars, inputVars, parseVars, space_used, solver, recVars, memoVars, dpVars, nfaVars>>

\* One trailing AnySequence token is consumed.
GreedyTrailingAnySequence ==
    /\ greedy_pc = "trailing"
    /\ p_idx < Len(tokens)
    /\ TokenAt(tokens, p_idx).type = "AnySequence"
    /\ p_idx' = p_idx + 1
    /\ UNCHANGED <<greedy_pc, s_idx, backtrack_point, greedy_result>>
    /\ UNCHANGED <<callerVars, validateVars, inputVars, parseVars, space_used, solver, recVars, memoVars, dpVars, nfaVars>>

GreedyFinishSkipsTrailing ==
    /\ greedy_pc = "trailing"
    /\ greedy_result' = Some(p_idx = Len(tokens))
    /\ greedy_pc' = "done"
    /\ space_used' = [space_used EXCEPT !["greedy"] = Some(GreedySpaceUsed)]
    /\ UNCHANGED <<s_idx, p_idx, backtrack_point>>
    /\ UNCHANGED <<callerVars, validateVars, inputVars, parseVars, solver, recVars, memoVars, dpVars, nfaVars>>

\* return p_idx == n
GreedyFinish ==
    /\ greedy_pc = "trailing"
    /\ ~(p_idx < Len(tokens) /\ TokenAt(tokens, p_idx).type = "AnySequence")
    /\ greedy_result' = Some(p_idx = Len(tokens))
    /\ greedy_pc' = "done"
    /\ space_used' = [space_used EXCEPT !["greedy"] = Some(GreedySpaceUsed)]
    /\ UNCHANGED <<s_idx, p_idx, backtrack_point>>
    /\ UNCHANGED <<callerVars, validateVars, inputVars, parseVars, solver, recVars, memoVars, dpVars, nfaVars>>

GreedyNext ==
    \/ GreedyStart
    \/ GreedyAnyChar
    \/ GreedyLiteralSequence
    \/ GreedyAnySequence
    \/ GreedyBacktrack
    \/ GreedyMismatch
    \/ GreedyTextExhausted
    \/ GreedyTrailingAnySequence
    \/ GreedyFinish

(***************************************************************************)
(* Issues (utils/issues.hpp) and the Validator (utils/validator.hpp)       *)
(***************************************************************************)
\* static_cast<unsigned char>(c)
SignedChar(c) == c
ToUnsignedChar(c) == c % 256

\* The std::formatter of IssueType.
IssueTypeToString(type) ==
    CASE type = "Error" -> "Error"
      [] type = "Warning" -> "Warning"

\* The IssueType of createIssue's switch.
IssueTypeOfAlwaysError(code) == "Error"
IssueTypeOf(code) ==
    CASE code = "MultibyteCharacterNotAllowed" -> "Error"
      [] code = "UndefinedEscapeSequence" -> "Error"
      [] code = "TrailingBackslash" -> "Error"
      [] code = "ConsecutiveAsterisksMerged" -> "Warning"

\* A formatted string is the sequence of its pieces, in order: the literal
\* pieces of the format string and the text put in place of each "{}".
\* The text of one character, and of a string of characters.
CharToString(c) ==
    CASE c = 97 -> "a"
      [] c = 98 -> "b"
      [] c = Asterisk -> "*"
      [] c = QuestionMark -> "?"
      [] c = Backslash -> "\\"
      [] OTHER -> ToString(c)

RECURSIVE CharsToString(_)
CharsToString(chars) ==
    IF chars = <<>> THEN <<>>
    ELSE <<CharToString(Head(chars))>> \o CharsToString(Tail(chars))

\* std::format(fmt, args...): every "{}" of the format string, from left to
\* right, is replaced by the next argument.
RECURSIVE StdFormat(_, _)
StdFormat(fmt, args) ==
    IF fmt = <<>> THEN <<>>
    ELSE IF Head(fmt) = "{}"
         THEN Head(args) \o StdFormat(Tail(fmt), Tail(args))
         ELSE <<Head(fmt)>> \o StdFormat(Tail(fmt), args)

\* detail.value_or("")
ValueOrEmpty(detail) == IF detail = None THEN <<>> ELSE CharsToString(detail[1])

\* The core message of createIssue's switch.
MessageCore(code, detail) ==
    CASE code = "MultibyteCharacterNotAllowed" ->
            <<"Input must contain only single-byte ASCII characters; a multi-byte character was found.">>
      [] code = "UndefinedEscapeSequence" ->
            StdFormat(<<"Undefined escape sequence '", "\\", "{}", "'. This is a fatal error.">>,
                      <<ValueOrEmpty(detail)>>)
      [] code = "TrailingBackslash" ->
            <<"Pattern cannot end with a trailing backslash. This is a fatal error.">>
      [] code = "ConsecutiveAsterisksMerged" ->
            <<"Consecutive '*' characters were found and automatically merged into a single '*'.">>

\* std::format("{} at position {}: {}", type, position, message_core)
FormatMessageWithoutPosition(type, position, message_core) ==
    StdFormat(<<"{}", ": ", "{}">>, <<<<IssueTypeToString(type)>>, message_core>>)
FormatMessage(type, position, message_core) ==
    StdFormat(<<"{}", " at position ", "{}", ": ", "{}">>,
              <<<<IssueTypeToString(type)>>, <<ToString(position)>>, message_core>>)

\* Validator::createIssue
CreateIssue(code, position, detail) ==
    LET type == IssueTypeOf(code) IN
    [type |-> type,
     code |-> code,
     message |-> FormatMessage(type, position, MessageCore(code, detail))]

\* Issue::isError()
IsError(issue) == issue.type = "Error"

ValidateInit ==
    /\ v_pc = "loop"
    /\ v_i = 0
    /\ issues = <<>>

ValidateIdle ==
    /\ str = <<>>
    /\ v_pc = "idle"
    /\ v_i = 0
    /\ issues = <<>>

\* validateRawString: a character that is not above 127; the next i.
ValidateRawAscii ==
    /\ v_pc = "loop"
    /\ v_i < Len(str)
    /\ ~(ToUnsignedChar(CharAt(str, v_i)) > 127)
    /\ v_i' = v_i + 1
    /\ UNCHANGED <<str, v_pc, issues>>
    /\ UNCHANGED <<callerVars, inputVars, parseVars, solverVars>>

\* validateRawString: a character above 127; the issue and the break.
ValidateRawMultibyte ==
    /\ v_pc = "loop"
    /\ v_i < Len(str)
    /\ ToUnsignedChar(CharAt(str, v_i)) > 127
    /\ issues' = Append(issues, CreateIssue("MultibyteCharacterNotAllowed", v_i + 1, None))
    /\ v_pc' = "done"
    /\ UNCHANGED <<str, v_i>>
    /\ UNCHANGED <<callerVars, inputVars, parseVars, solverVars>>

\* validateRawString: the loop ends without an issue.
ValidateRawEnd ==
    /\ v_pc = "loop"
    /\ ~(v_i < Len(str))
    /\ v_pc' = "done"
    /\ UNCHANGED <<str, v_i, issues>>
    /\ UNCHANGED <<callerVars, inputVars, parseVars, solverVars>>

ValidateNext ==
    \/ ValidateRawAscii
    \/ ValidateRawMultibyte
    \/ ValidateRawEnd

(***************************************************************************)
(* Validator::validateParseResult                                          *)
(***************************************************************************)
\* for (const auto& event : parse_result.events): the event of the iteration
\* that follows it iterations.
RangeForEventReversed(evs, it) == evs[Len(evs) - it]
RangeForEvent(evs, it) == evs[it + 1]

\* One iteration: issues.push_back(createIssue(event.code, event.position,
\* event.detail)).
ValidateEventsStep ==
    /\ pr_pc = "loop"
    /\ event_it < Len(events)
    /\ LET event == RangeForEvent(events, event_it) IN
        parse_issues' = Append(parse_issues,
                               CreateIssue(event.code, event.position, event.detail))
    /\ event_it' = event_it + 1
    /\ UNCHANGED <<pr_pc>>
    /\ UNCHANGED <<cliVars, parse_calls, validateVars, inputVars, parseVars, solverVars>>

\* The loop is over: return issues.
ValidateEventsEnd ==
    /\ pr_pc = "loop"
    /\ ~(event_it < Len(events))
    /\ pr_pc' = "done"
    /\ UNCHANGED <<event_it, parse_issues>>
    /\ UNCHANGED <<cliVars, parse_calls, validateVars, inputVars, parseVars, solverVars>>

ValidateEventsNext ==
    \/ ValidateEventsStep
    \/ ValidateEventsEnd

(***************************************************************************)
(* The typed test (test/test.cpp): every solver type runs on the same text *)
(* and pattern.                                                            *)
(***************************************************************************)
SolverDone(name) ==
    CASE name = "none" -> ppc = "done"
      [] name = "recursive" -> rec_pc = "done"
      [] name = "memo" -> memo_pc = "done"
      [] name = "dp" -> dp_pc = "done"
      [] name = "nfa" -> nfa_pc = "done"
      [] name = "greedy" -> greedy_pc = "done"

SolverIndex(name) ==
    IF name = "none" THEN 0
    ELSE CHOOSE k \in 1..Len(SolverImplementations) : SolverImplementations[k] = name

\* The next instantiation of the typed test starts.
NextSolver ==
    /\ solver # "done"
    /\ SolverDone(solver)
    /\ solver' = IF SolverIndex(solver) < Len(SolverImplementations)
                 THEN SolverImplementations[SolverIndex(solver) + 1]
                 ELSE "done"
    /\ UNCHANGED <<callerVars, validateVars, inputVars, parseVars, space_used, recVars, memoVars, dpVars, nfaVars, greedyVars>>

\* The instantiation of the typed test for GreedySolver starts.
GreedySolverTest ==
    /\ solver = "none"
    /\ SolverDone(solver)
    /\ solver' = "greedy"
    /\ UNCHANGED <<callerVars, validateVars, inputVars, parseVars, space_used, recVars, memoVars, dpVars, nfaVars, greedyVars>>

SolversInit ==
    /\ solver = "none"
    /\ rec_pc = "idle"
    /\ rec_stack = <<>>
    /\ rec_ret = None
    /\ rec_max_depth = 0
    /\ rec_result = None
    /\ memo_pc = "idle"
    /\ memo_stack = <<>>
    /\ memo_ret = None
    /\ memo = <<>>
    /\ memo_evaluated = <<>>
    /\ memo_max_depth = 0
    /\ memo_result = None
    /\ dp_pc = "idle"
    /\ dp = <<>>
    /\ dp_i = 0
    /\ dp_j = 0
    /\ dp_result = None
    /\ nfa_pc = "idle"
    /\ nfa_dp = <<>>
    /\ nfa_i = 0
    /\ nfa_result = None
    /\ greedy_pc = "idle"
    /\ s_idx = 0
    /\ p_idx = 0
    /\ backtrack_point = None
    /\ greedy_result = None
    /\ space_used = [name \in {"recursive", "memo", "dp", "nfa", "greedy"} |-> None]

(***************************************************************************)
(* The parser test (test/test_parser.cpp): Parser::parse is called once    *)
(* per test case, one call after the other.                                *)
(***************************************************************************)
\* The patterns of the test cases.
CallPatterns == SeqsUpTo(PatternChars, MaxCallPatLen)

\* The next test case calls Parser::parse(test_case.pattern).  Up to three
\* cases run, and the third has the pattern of the first.
ParserTestCall ==
    /\ ppc = "idle"
    /\ Len(parse_calls) < 3
    /\ \E pattern \in CallPatterns :
        /\ Len(parse_calls) = 2 => pattern = parse_calls[1].pattern
        /\ p' = pattern
    /\ ppc' = "start"
    /\ parse_i' = 0
    /\ tokens' = FreshParseResult.tokens
    /\ events' = FreshParseResult.events
    /\ literal_builder' = <<>>
    /\ UNCHANGED <<parse_calls, s>>
    /\ UNCHANGED <<eventVars, cliVars, validateVars, solverVars>>

\* The call returned: actual_result holds the tokens and the events.
ParserTestReturn ==
    /\ ppc = "done"
    /\ parse_calls' = Append(parse_calls,
                             [pattern |-> p, tokens |-> tokens, events |-> events])
    /\ ppc' = "idle"
    /\ UNCHANGED <<parse_i, tokens, events, literal_builder>>
    /\ UNCHANGED <<eventVars, cliVars, validateVars, inputVars, solverVars>>

(***************************************************************************)
(* InputValidator (include/validator.hpp)                                  *)
(***************************************************************************)
\* std::string::npos
Npos == -1

\* InputValidator::findWildcard: the 0-based index of the first '?' or '*' at
\* or after index i, npos if there is none.
RECURSIVE FindWildcardFrom(_, _)
FindWildcardFrom(sv, i) ==
    IF ~(i < Len(sv)) THEN Npos
    ELSE IF CharAt(sv, i) = QuestionMark \/ CharAt(sv, i) = Asterisk THEN i
    ELSE FindWildcardFrom(sv, i + 1)

FindWildcard(sv) == FindWildcardFrom(sv, 0)

(***************************************************************************)
(* main (src/main.cpp)                                                     *)
(***************************************************************************)
\* The keys of solver_registry.
SolverRegistry == {"recursive", "memo", "dp", "greedy"}

\* processAndPrintIssues: the errors and the warnings among the issues.
ErrorsOf(iss) == SelectSeq(iss, IsError)
WarningsOf(iss) == SelectSeq(iss, LAMBDA issue : ~IsError(issue))

\* processAndPrintIssues: the value returned, true if there is a fatal error.
HasFatalErrorsOrWarnings(iss) == iss # <<>>
HasFatalErrors(iss) == iss # <<>> /\ ErrorsOf(iss) # <<>>

\* processAndPrintIssues: the lines written to std::cerr.
MessageLines(iss) == [k \in 1..Len(iss) |-> <<"  - ">> \o iss[k].message]

PrintedIssues(iss, context_header) ==
    IF iss = <<>> THEN <<>>
    ELSE (IF WarningsOf(iss) # <<>>
          THEN <<<<"Warning(s) found ", context_header, ":">>>> \o MessageLines(WarningsOf(iss))
          ELSE <<>>)
         \o
         (IF ErrorsOf(iss) # <<>>
          THEN <<<<"Error(s) found ", context_header, ". Operation cannot continue:">>>>
                    \o MessageLines(ErrorsOf(iss))
          ELSE <<>>)

\* The lines main can read from std::cin.
CliTextChars == {97, Asterisk, -62}
CliPatternChars == {97, QuestionMark, Asterisk, Backslash, -62}
CliTexts == SeqsUpTo(CliTextChars, MaxTextLen)
CliPatterns == SeqsUpTo(CliPatternChars, MaxMatchPatLen)

\* return EXIT_FAILURE / EXIT_SUCCESS
CliExit(code) ==
    /\ cli_pc' = "exit"
    /\ exit_code' = Some(code)

\* options.parse throws: the usage is printed.
CliArgumentError ==
    /\ cli_pc = "args"
    /\ CliExit("EXIT_FAILURE")
    /\ UNCHANGED <<solver_choice, lines_read, cerr>>
    /\ UNCHANGED <<eventVars, parse_calls, validateVars, inputVars, parseVars, solverVars>>

\* --help
CliHelp ==
    /\ cli_pc = "args"
    /\ CliExit("EXIT_SUCCESS")
    /\ UNCHANGED <<solver_choice, lines_read, cerr>>
    /\ UNCHANGED <<eventVars, parse_calls, validateVars, inputVars, parseVars, solverVars>>

\* The solver named is not in the registry.
CliUnknownSolver ==
    /\ cli_pc = "args"
    /\ CliExit("EXIT_FAILURE")
    /\ cerr' = Append(cerr, <<"Error: Unknown solver '", "{}", "' specified.">>)
    /\ UNCHANGED <<solver_choice, lines_read>>
    /\ UNCHANGED <<eventVars, parse_calls, validateVars, inputVars, parseVars, solverVars>>

\* The solver named (greedy by default) is found in the registry.
CliSelectSolver ==
    /\ cli_pc = "args"
    /\ \E choice \in SolverRegistry : solver_choice' = choice
    /\ cli_pc' = "read_text"
    /\ UNCHANGED <<lines_read, cerr, exit_code>>
    /\ UNCHANGED <<eventVars, parse_calls, validateVars, inputVars, parseVars, solverVars>>

\* std::getline fails on the text or on the pattern.
CliReadFails ==
    /\ cli_pc \in {"read_text", "read_pattern"}
    /\ CliExit("EXIT_FAILURE")
    /\ UNCHANGED <<solver_choice, lines_read, cerr>>
    /\ UNCHANGED <<eventVars, parse_calls, validateVars, inputVars, parseVars, solverVars>>

\* The text is read and Validator::validateRawString(s) is called.
CliReadText ==
    /\ cli_pc = "read_text"
    /\ \E line \in CliTexts :
        /\ s' = line
        /\ str' = line
    /\ lines_read' = lines_read + 1
    /\ v_pc' = "loop"
    /\ v_i' = 0
    /\ issues' = <<>>
    /\ cli_pc' = "validate_text"
    /\ UNCHANGED <<solver_choice, cerr, exit_code, p>>
    /\ UNCHANGED <<eventVars, parse_calls, parseVars, solverVars>>

\* processAndPrintIssues on the issues of the text.
CliTextValidated ==
    /\ cli_pc = "validate_text"
    /\ v_pc = "done"
    /\ cerr' = cerr \o PrintedIssues(issues, "in the text string")
    /\ IF HasFatalErrors(issues)
       THEN CliExit("EXIT_FAILURE")
       ELSE cli_pc' = "read_pattern" /\ exit_code' = exit_code
    /\ UNCHANGED <<solver_choice, lines_read>>
    /\ UNCHANGED <<eventVars, parse_calls, validateVars, inputVars, parseVars, solverVars>>

\* The pattern is read and Validator::validateRawString(p) is called.
CliReadPattern ==
    /\ cli_pc = "read_pattern"
    /\ \E line \in CliPatterns :
        /\ p' = line
        /\ str' = line
    /\ lines_read' = lines_read + 1
    /\ v_pc' = "loop"
    /\ v_i' = 0
    /\ issues' = <<>>
    /\ cli_pc' = "validate_pattern"
    /\ UNCHANGED <<solver_choice, cerr, exit_code, s>>
    /\ UNCHANGED <<eventVars, parse_calls, parseVars, solverVars>>

\* processAndPrintIssues on the issues of the pattern, then Parser::parse(p)
\* is called.
CliPatternValidated ==
    /\ cli_pc = "validate_pattern"
    /\ v_pc = "done"
    /\ cerr' = cerr \o PrintedIssues(issues, "in the pattern string")
    /\ IF HasFatalErrors(issues)
       THEN /\ CliExit("EXIT_FAILURE")
            /\ UNCHANGED parseVars
       ELSE /\ cli_pc' = "parse"
            /\ exit_code' = exit_code
            /\ ppc' = "start"
            /\ parse_i' = 0
            /\ tokens' = FreshParseResult.tokens
            /\ events' = FreshParseResult.events
            /\ literal_builder' = <<>>
    /\ UNCHANGED <<solver_choice, lines_read>>
    /\ UNCHANGED <<eventVars, parse_calls, validateVars, inputVars, solverVars>>

\* Parser::parse returned; Validator::validateParseResult(parse_result) is
\* called.
CliParsed ==
    /\ cli_pc = "parse"
    /\ ppc = "done"
    /\ pr_pc' = "loop"
    /\ event_it' = 0
    /\ parse_issues' = <<>>
    /\ cli_pc' = "validate_parse"
    /\ UNCHANGED <<solver_choice, lines_read, cerr, exit_code>>
    /\ UNCHANGED <<parse_calls, validateVars, inputVars, parseVars, solverVars>>

\* processAndPrintIssues on the parse issues, then the selected solver's
\* run_function is called.
CliParseValidated ==
    /\ cli_pc = "validate_parse"
    /\ pr_pc = "done"
    /\ cerr' = cerr \o PrintedIssues(parse_issues, "during pattern parsing")
    /\ IF HasFatalErrors(parse_issues)
       THEN /\ CliExit("EXIT_FAILURE")
            /\ solver' = solver
       ELSE /\ cli_pc' = "run"
            /\ exit_code' = exit_code
            /\ solver' = solver_choice
    /\ UNCHANGED <<solver_choice, lines_read>>
    /\ UNCHANGED <<eventVars, parse_calls, validateVars, inputVars, parseVars>>
    /\ UNCHANGED <<recVars, memoVars, dpVars, nfaVars, greedyVars, space_used>>

\* The solver returned its profile: the result is printed.
CliPrintResult ==
    /\ cli_pc = "run"
    /\ SolverDone(solver_choice)
    /\ CliExit("EXIT_SUCCESS")
    /\ UNCHANGED <<solver_choice, lines_read, cerr>>
    /\ UNCHANGED <<eventVars, parse_calls, validateVars, inputVars, parseVars, solverVars>>

CliNext ==
    \/ CliArgumentError
    \/ CliHelp
    \/ CliUnknownSolver
    \/ CliSelectSolver
    \/ CliReadFails
    \/ CliReadText
    \/ CliTextValidated
    \/ CliReadPattern
    \/ CliPatternValidated
    \/ CliParsed
    \/ CliParseValidated
    \/ CliPrintResult

(***************************************************************************)
(* Specifications.                                                         *)
(***************************************************************************)
\* validateParseResult, main and the parser test are not running.
ValidateEventsIdle ==
    /\ pr_pc = "idle"
    /\ event_it = 0
    /\ parse_issues = <<>>

CliIdle ==
    /\ cli_pc = "idle"
    /\ solver_choice = "none"
    /\ lines_read = 0
    /\ cerr = <<>>
    /\ exit_code = None

CallersIdle ==
    /\ ValidateEventsIdle
    /\ CliIdle
    /\ parse_calls = <<>>

\* The parser alone, on every pattern up to MaxPatLen.
InitParse ==
    /\ s = <<>>
    /\ p \in SeqsUpTo(PatternChars, MaxPatLen)
    /\ ParseInit
    /\ SolversInit
    /\ ValidateIdle
    /\ CallersIdle

SpecParse == InitParse /\ [][ParseNext]_vars

\* The parser's loop runs on: every step that can be taken is taken.
SpecParseLive == SpecParse /\ WF_vars(ParseNext)

\* The typed test: the pattern is parsed, then every strategy runs.
Init ==
    /\ s \in SeqsUpTo(TextChars, MaxTextLen)
    /\ p \in SeqsUpTo(MatchPatternChars, MaxMatchPatLen)
    /\ ParseInit
    /\ SolversInit
    /\ ValidateIdle
    /\ CallersIdle

Next ==
    \/ ParseNext
    \/ NextSolver
    \/ RecNext
    \/ MemoNext
    \/ DpNext
    \/ NfaNext
    \/ GreedyNext

Spec == Init /\ [][Next]_vars

\* The validator alone, on every raw string up to MaxRawLen.
InitValidate ==
    /\ str \in SeqsUpTo(RawChars, MaxRawLen)
    /\ ValidateInit
    /\ s = <<>>
    /\ p = <<>>
    /\ ParseInit
    /\ SolversInit
    /\ CallersIdle

SpecValidate == InitValidate /\ [][ValidateNext]_vars

\* main: the arguments are parsed, the two lines are read and validated, the
\* pattern is parsed and the selected solver runs.
\* Every call of the typed test runs to completion: no step that can be taken
\* is put off for ever.
InitLive ==
    /\ s \in SeqsUpTo(OrdinaryChars, MaxTextLen)
    /\ p \in SeqsUpTo(MatchPatternChars, MaxMatchPatLen)
    /\ ParseInit
    /\ SolversInit
    /\ ValidateIdle
    /\ CallersIdle

SpecLive == InitLive /\ [][Next]_vars /\ WF_vars(Next)

\* The typed test instantiated for GreedySolver alone, on longer texts.
InitGreedy ==
    /\ s \in SeqsUpTo(OrdinaryChars, MaxGreedyTextLen)
    /\ p \in SeqsUpTo(MatchPatternChars, MaxGreedyPatLen)
    /\ ParseInit
    /\ SolversInit
    /\ ValidateIdle
    /\ CallersIdle

NextGreedy ==
    \/ ParseNext
    \/ GreedySolverTest
    \/ GreedyNext

SpecGreedy == InitGreedy /\ [][NextGreedy]_vars

InitCli ==
    /\ s = <<>>
    /\ p = <<>>
    /\ ppc = "idle"
    /\ parse_i = 0
    /\ tokens = <<>>
    /\ events = <<>>
    /\ literal_builder = <<>>
    /\ SolversInit
    /\ ValidateIdle
    /\ ValidateEventsIdle
    /\ cli_pc = "args"
    /\ solver_choice = "none"
    /\ lines_read = 0
    /\ cerr = <<>>
    /\ exit_code = None
    /\ parse_calls = <<>>

NextCli ==
    \/ CliNext
    \/ ValidateNext
    \/ ParseNext
    \/ ValidateEventsNext
    \/ RecNext
    \/ MemoNext
    \/ DpNext
    \/ GreedyNext

SpecCli == InitCli /\ [][NextCli]_vars

\* The parser test: calls of Parser::parse in a row.
InitParserTest ==
    /\ s = <<>>
    /\ p = <<>>
    /\ ppc = "idle"
    /\ parse_i = 0
    /\ tokens = <<>>
    /\ events = <<>>
    /\ literal_builder = <<>>
    /\ SolversInit
    /\ ValidateIdle
    /\ CallersIdle

NextParserTest ==
    \/ ParserTestCall
    \/ ParserTestReturn
    \/ ParseNext

SpecParserTest == InitParserTest /\ [][NextParserTest]_vars

\* validateParseResult alone, on a ParseResult built by hand as the validator
\* test builds it: every list of up to MaxEvents events.
IssueCodes ==
    {"MultibyteCharacterNotAllowed", "UndefinedEscapeSequence",
     "TrailingBackslash", "ConsecutiveAsterisksMerged"}

EventInputs ==
    {ParseEvent(code, position, detail) :
        code \in IssueCodes, position \in {2, 3}, detail \in {None, Some(<<98>>)}}

InitValidateEvents ==
    /\ s = <<>>
    /\ p = <<>>
    /\ ppc = "done"
    /\ parse_i = 0
    /\ tokens = <<>>
    /\ events \in SeqsUpTo(EventInputs, MaxEvents)
    /\ literal_builder = <<>>
    /\ SolversInit
    /\ ValidateIdle
    /\ pr_pc = "loop"
    /\ event_it = 0
    /\ parse_issues = <<>>
    /\ CliIdle
    /\ parse_calls = <<>>

SpecValidateEvents == InitValidateEvents /\ [][ValidateEventsNext]_vars

(***************************************************************************)
(* The raw pattern, read independently of the parser.                      *)
(***************************************************************************)
\* The number of consecutive backslashes right before position k (1-based).
RECURSIVE BackslashesBefore(_, _)
BackslashesBefore(pat, k) ==
    IF k > 1 /\ pat[k - 1] = Backslash THEN 1 + BackslashesBefore(pat, k - 1) ELSE 0

\* Position k is the second character of an escape.
IsEscaped(pat, k) == BackslashesBefore(pat, k) % 2 = 1

\* Position k holds the character c and is not escaped.
UnescapedAt(pat, k, c) == k \in 1..Len(pat) /\ pat[k] = c /\ ~IsEscaped(pat, k)

\* Position k is the first asterisk of a maximal run of unescaped asterisks.
RunStart(pat, k) ==
    UnescapedAt(pat, k, Asterisk) /\ ~UnescapedAt(pat, k - 1, Asterisk)

\* Position k is the 2nd, 3rd, ... asterisk of a run of unescaped asterisks.
RunContinuation(pat, k) ==
    UnescapedAt(pat, k, Asterisk) /\ UnescapedAt(pat, k - 1, Asterisk)

\* The elements of a finite set of integers in increasing order.
RECURSIVE Ascending(_)
Ascending(S) ==
    IF S = {} THEN <<>>
    ELSE LET least == CHOOSE x \in S : \A y \in S : x <= y
         IN <<least>> \o Ascending(S \ {least})

EventsWithCode(evs, code) == SelectSeq(evs, LAMBDA e : e.code = code)
PositionsOf(evs) == [k \in 1..Len(evs) |-> evs[k].position]
CountTokens(toks, type) == Cardinality({k \in 1..Len(toks) : toks[k].type = type})

(***************************************************************************)
(* Claims about Parser::parse (SpecParse).                                 *)
(***************************************************************************)
\* C2: the token list Parser::parse returns holds no LiteralSequence with an
\* empty value and no two adjacent AnySequence tokens.
C2_NoEmptyLiteralNoAdjacentAnySequence ==
    ppc = "done" =>
        \A k \in 1..Len(tokens) :
            /\ tokens[k].type = "LiteralSequence" => tokens[k].value # <<>>
            /\ k < Len(tokens) =>
                ~(tokens[k].type = "AnySequence" /\ tokens[k + 1].type = "AnySequence")

\* A pattern with two asterisks in a row and two question marks in a row has
\* been parsed.
C2_Witness ==
    /\ ppc = "done"
    /\ \E k \in 1..Len(p) - 1 : p[k] = Asterisk /\ p[k + 1] = Asterisk
    /\ \E k \in 1..Len(p) - 1 : p[k] = QuestionMark /\ p[k + 1] = QuestionMark

\* C3: at every point of the scan, with the first parse_i characters consumed,
\* the ConsecutiveAsterisksMerged events are, in order, exactly the positions
\* of the 2nd through k-th asterisk of every run of unescaped asterisks in the
\* consumed prefix, and there is one AnySequence token per run.
C3_MergingLaw ==
    ppc \in {"loop", "done"} =>
        /\ PositionsOf(EventsWithCode(events, "ConsecutiveAsterisksMerged"))
            = Ascending({k \in 1..parse_i : RunContinuation(p, k)})
        /\ CountTokens(tokens, "AnySequence")
            = Cardinality({k \in 1..parse_i : RunStart(p, k)})

\* A pattern with a run of three asterisks after another character has been
\* parsed: one AnySequence, two events.
C3_Witness ==
    /\ ppc = "done"
    /\ \E k \in 4..Len(p) :
        /\ RunStart(p, k - 2) /\ RunContinuation(p, k - 1) /\ RunContinuation(p, k)
        /\ PositionsOf(events) = <<k - 1, k>>
    /\ CountTokens(tokens, "AnySequence") = 1

\* The scan is at an unescaped backslash that is not the last character and is
\* followed by a character other than '*', '?' and '\'.
AtUndefinedEscape ==
    /\ ppc = "loop"
    /\ parse_i + 2 <= Len(p)
    /\ p[parse_i + 1] = Backslash
    /\ p[parse_i + 2] \notin {Asterisk, QuestionMark, Backslash}

\* C4: a step of the parser at a backslash followed by a character c other
\* than '*', '?' and '\' appends c to the pending literal run, appends exactly
\* one UndefinedEscapeSequence event whose position is the 1-based position of
\* the backslash and whose detail is c, leaves the tokens alone and moves the
\* scan past both characters.
C4_UndefinedEscape ==
    [][AtUndefinedEscape =>
        /\ literal_builder' = Append(literal_builder, p[parse_i + 2])
        /\ events' = Append(events,
                            [code |-> "UndefinedEscapeSequence",
                             position |-> parse_i + 1,
                             detail |-> <<<<p[parse_i + 2]>>>>])
        /\ tokens' = tokens
        /\ parse_i' = parse_i + 2
        /\ ppc' = "loop"]_vars

\* The parser has just taken "\a" or "\b" in the middle of a pattern: the last
\* event is the UndefinedEscapeSequence of the backslash and the pending
\* literal run ends with the escaped character.
C4_Witness ==
    /\ ppc = "loop"
    /\ parse_i >= 3
    /\ parse_i < Len(p)
    /\ p[parse_i - 1] = Backslash
    /\ ~IsEscaped(p, parse_i - 1)
    /\ p[parse_i] \in OrdinaryChars
    /\ events # <<>>
    /\ events[Len(events)] = [code |-> "UndefinedEscapeSequence",
                              position |-> parse_i - 1,
                              detail |-> <<<<p[parse_i]>>>>]
    /\ literal_builder # <<>>
    /\ literal_builder[Len(literal_builder)] = p[parse_i]

\* The scan is at an unescaped backslash followed by '*', '?' or '\'.
AtDefinedEscape ==
    /\ ppc = "loop"
    /\ parse_i + 2 <= Len(p)
    /\ p[parse_i + 1] = Backslash
    /\ p[parse_i + 2] \in {Asterisk, QuestionMark, Backslash}

\* The characters of the first n characters of the pattern that are literal
\* content: every escaped character, and every unescaped character other than
\* '*', '?' and '\'.
RECURSIVE LiteralContent(_, _)
LiteralContent(pat, n) ==
    IF n = 0 THEN <<>>
    ELSE IF IsEscaped(pat, n) \/ pat[n] \notin {Asterisk, QuestionMark, Backslash}
         THEN Append(LiteralContent(pat, n - 1), pat[n])
         ELSE LiteralContent(pat, n - 1)

\* The values of the LiteralSequence tokens, concatenated.
RECURSIVE LiteralValues(_)
LiteralValues(toks) ==
    IF toks = <<>> THEN <<>>
    ELSE LiteralValues(SubSeq(toks, 1, Len(toks) - 1)) \o toks[Len(toks)].value

\* C5: a step of the parser at "\*", "\?" or "\\" appends the escaped
\* character to the pending literal run and raises no event and no token; and
\* at every point of the scan the AnyChar tokens are as many as the unescaped
\* question marks consumed, the AnySequence tokens and merge events together
\* as many as the unescaped asterisks consumed, and every merge event sits on
\* an unescaped asterisk that follows an unescaped asterisk.
C5_DefinedEscapes ==
    /\ [][AtDefinedEscape =>
            /\ literal_builder' = Append(literal_builder, p[parse_i + 2])
            /\ events' = events
            /\ tokens' = tokens
            /\ parse_i' = parse_i + 2
            /\ ppc' = "loop"]_vars
    /\ [](ppc \in {"loop", "done"} =>
            /\ CountTokens(tokens, "AnyChar")
                = Cardinality({k \in 1..parse_i : UnescapedAt(p, k, QuestionMark)})
            /\ CountTokens(tokens, "AnySequence")
                    + Len(EventsWithCode(events, "ConsecutiveAsterisksMerged"))
                = Cardinality({k \in 1..parse_i : UnescapedAt(p, k, Asterisk)})
            /\ \A e \in 1..Len(events) :
                events[e].code = "ConsecutiveAsterisksMerged" =>
                    /\ UnescapedAt(p, events[e].position, Asterisk)
                    /\ UnescapedAt(p, events[e].position - 1, Asterisk))

\* The pattern "*\**" (possibly followed by more) has been parsed: an escaped
\* asterisk between two unescaped ones, two AnySequence tokens around the
\* literal "*" and no event.
C5_Witness ==
    /\ ppc = "done"
    /\ Len(p) >= 4
    /\ SubSeq(p, 1, 4) = <<Asterisk, Backslash, Asterisk, Asterisk>>
    /\ SubSeq(tokens, 1, 3) = <<AnySequence, LiteralSequence(<<Asterisk>>), AnySequence>>
    /\ EventsWithCode(events, "ConsecutiveAsterisksMerged") = <<>>

\* The pattern ends with an unescaped backslash.
EndsWithUnescapedBackslash(pat) == UnescapedAt(pat, Len(pat), Backslash)

\* C6: a step of the parser at a backslash that is the last character changes
\* neither the tokens nor the pending literal run; and the result for a pattern
\* that ends with an unescaped backslash holds exactly one TrailingBackslash
\* event, whose position is the length of the pattern, while the literal
\* tokens hold the literal content of the pattern and nothing of that
\* backslash.
C6_TrailingBackslash ==
    /\ [][(ppc = "loop" /\ parse_i + 1 = Len(p) /\ p[parse_i + 1] = Backslash) =>
            /\ tokens' = tokens
            /\ literal_builder' = literal_builder
            /\ parse_i' = Len(p)]_vars
    /\ []((ppc = "done" /\ EndsWithUnescapedBackslash(p)) =>
            /\ EventsWithCode(events, "TrailingBackslash")
                = <<[code |-> "TrailingBackslash", position |-> Len(p), detail |-> <<>>]>>
            /\ LiteralValues(tokens) = LiteralContent(p, Len(p) - 1))

\* A pattern of a literal character, an escaped backslash and a trailing
\* backslash (e.g. "a\\\") has been parsed.
C6_Witness ==
    /\ ppc = "done"
    /\ Len(p) >= 4
    /\ p[Len(p)] = Backslash
    /\ p[Len(p) - 1] = Backslash
    /\ p[Len(p) - 2] = Backslash
    /\ p[Len(p) - 3] \in OrdinaryChars
    /\ events # <<>>
    /\ events[Len(events)].code = "TrailingBackslash"
    /\ events[Len(events)].position = Len(p)

\* C7: Parser::parse never aborts: on every pattern the scan reaches the end of
\* the pattern and the function returns, whatever errors the pattern holds.
C7_ParseAlwaysReturns == <>(ppc = "done" /\ parse_i = Len(p) /\ literal_builder = <<>>)

\* A pattern with an undefined escape, redundant asterisks and a trailing
\* backslash has been parsed to the end, the three errors reported as events.
C7_Witness ==
    /\ ppc = "done"
    /\ parse_i = Len(p)
    /\ EventsWithCode(events, "UndefinedEscapeSequence") # <<>>
    /\ EventsWithCode(events, "ConsecutiveAsterisksMerged") # <<>>
    /\ EventsWithCode(events, "TrailingBackslash") # <<>>

\* C8: the result of parsing the empty pattern has no tokens and no events.
C8_EmptyPattern ==
    (ppc = "done" /\ p = <<>>) => (tokens = <<>> /\ events = <<>>)

\* The empty pattern has been parsed.
C8_Witness == ppc = "done" /\ p = <<>> /\ parse_i = 0 /\ tokens = <<>>

\* No two adjacent tokens are both LiteralSequence tokens.
NoAdjacentLiterals(toks) ==
    \A k \in 1..(Len(toks) - 1) :
        ~(toks[k].type = "LiteralSequence" /\ toks[k + 1].type = "LiteralSequence")

\* The pattern holds an unescaped '?' or '*'.
HasUnescapedWildcard(pat) ==
    \E k \in 1..Len(pat) :
        UnescapedAt(pat, k, QuestionMark) \/ UnescapedAt(pat, k, Asterisk)

\* A step at an escape leaves the tokens alone and appends the escaped
\* character to the pending run.
EscapeJoinsRun ==
    (AtDefinedEscape \/ AtUndefinedEscape) =>
        /\ tokens' = tokens
        /\ literal_builder' = Append(literal_builder, p[parse_i + 2])

\* C27: compiled literal runs are maximal: the token list Parser::parse returns
\* never holds two adjacent LiteralSequence tokens (a pattern without an
\* unescaped wildcard gives at most one token), and an escaped character or a
\* recovered undefined escape joins the run of ordinary characters it is in.
C27_LiteralRunsMaximal ==
    /\ [](ppc = "done" =>
            /\ NoAdjacentLiterals(tokens)
            /\ ~HasUnescapedWildcard(p) => Len(tokens) <= 1)
    /\ [][EscapeJoinsRun]_vars

\* An ordinary character, a defined escape and an undefined escape have been
\* compiled into one LiteralSequence of three characters (e.g. "a\*\b").
C27_Witness ==
    /\ ppc = "done"
    /\ Len(p) = 5
    /\ p[1] \in OrdinaryChars
    /\ Len(tokens) = 1
    /\ tokens[1].type = "LiteralSequence"
    /\ Len(tokens[1].value) = 3
    /\ Asterisk \in {tokens[1].value[k] : k \in 1..3}
    /\ Len(events) = 1
    /\ events[1].code = "UndefinedEscapeSequence"

\* The character an event of the given code points at.
EventChar(code) ==
    IF code = "ConsecutiveAsterisksMerged" THEN Asterisk ELSE Backslash

\* C30: the events Parser::parse returns are in strictly increasing position
\* order, every position lies in 1..length(pattern), and every position is
\* the index of a '*' (ConsecutiveAsterisksMerged) or of a backslash
\* (UndefinedEscapeSequence, TrailingBackslash) in the raw pattern.
C30_EventPositions ==
    ppc = "done" =>
        /\ \A k \in 1..(Len(events) - 1) : events[k].position < events[k + 1].position
        /\ \A k \in 1..Len(events) :
            /\ events[k].position \in 1..Len(p)
            /\ events[k].code \in {"ConsecutiveAsterisksMerged",
                                   "UndefinedEscapeSequence", "TrailingBackslash"}
            /\ p[events[k].position] = EventChar(events[k].code)

\* A pattern has been parsed into three events of the three codes (e.g.
\* "**\a\").
C30_Witness ==
    /\ ppc = "done"
    /\ Len(events) = 3
    /\ {events[k].code : k \in 1..3} =
        {"ConsecutiveAsterisksMerged", "UndefinedEscapeSequence", "TrailingBackslash"}

(***************************************************************************)
(* Claims about the matching strategies (Spec).                            *)
(***************************************************************************)
\* The results of the four strategies that run on the compiled tokens.
TokenStrategyResults == {rec_result, memo_result, dp_result, greedy_result}

\* The results of all five strategies; the single-row DP runs on the raw
\* pattern.
AllStrategyResults == TokenStrategyResults \cup {nfa_result}

HasBackslash(pat) == \E k \in 1..Len(pat) : pat[k] = Backslash

\* C1 as stated: once all five strategies have run on a text and a pattern,
\* they have returned the same boolean.
C1_AllFiveAgree ==
    solver = "done" => \E b \in BOOLEAN : AllStrategyResults = {Some(b)}

\* C1 as amended: the four token strategies (recursive, memoized, dense DP,
\* greedy) have returned the same boolean, and the single-row DP has returned
\* that boolean too whenever the pattern holds no backslash.
C1_StrategiesAgree ==
    solver = "done" =>
        \E b \in BOOLEAN :
            /\ TokenStrategyResults = {Some(b)}
            /\ ~HasBackslash(p) => nfa_result = Some(b)

\* All five strategies have matched a text of two characters against a
\* pattern that starts with two asterisks and holds a question mark and a
\* literal character (e.g. "**?b" on "ab").
C1_Witness ==
    /\ solver = "done"
    /\ Len(s) = 2
    /\ Len(p) = 4
    /\ p[1] = Asterisk /\ p[2] = Asterisk
    /\ \E k \in 3..4 : p[k] = QuestionMark
    /\ \E k \in 3..4 : p[k] \in OrdinaryChars
    /\ AllStrategyResults = {Some(TRUE)}

\* Every token of the list is an AnySequence.
AllAnySequence(toks) == \A k \in 1..Len(toks) : toks[k].type = "AnySequence"

SegmentMatches(token, segment) ==
    CASE token.type = "LiteralSequence" -> segment = token.value
      [] token.type = "AnyChar" -> Len(segment) = 1
      [] token.type = "AnySequence" -> TRUE

\* The text can be split into consecutive segments, one per token in order,
\* each matched by its token: some prefix of length k is the first token's
\* segment and the rest splits over the other tokens.
RECURSIVE CanonicalMatch(_, _)
CanonicalMatch(text, toks) ==
    IF toks = <<>> THEN text = <<>>
    ELSE \E k \in 0..Len(text) :
            /\ SegmentMatches(Head(toks), SubSeq(text, 1, k))
            /\ CanonicalMatch(SubSeq(text, k + 1, Len(text)), Tail(toks))

\* C17: the recursive backtracking strategy has returned true exactly when the
\* text splits into consecutive segments, one per token in order, a
\* LiteralSequence's segment equal to its value, an AnyChar's segment of
\* length one and an AnySequence's segment of any length.
C17_RecursiveIsCanonical ==
    (solver = "recursive" /\ rec_pc = "done") =>
        rec_result = Some(CanonicalMatch(s, tokens))

\* The recursive strategy has matched a text of two characters against an
\* AnySequence, an AnyChar and a LiteralSequence (e.g. "*?a" on "ba").
C17_Witness ==
    /\ solver = "recursive"
    /\ rec_pc = "done"
    /\ Len(s) = 2
    /\ Len(tokens) = 3
    /\ tokens[1].type = "AnySequence"
    /\ tokens[2].type = "AnyChar"
    /\ tokens[3].type = "LiteralSequence"
    /\ rec_result = Some(TRUE)

\* C18: when the dense DP table is complete, dp[i][j] is a match exactly when
\* the first i characters of the text match the first j tokens under the
\* canonical semantics; dp[i][0] is no match for every i >= 1, and dp[0][j] is
\* a match exactly when the first j tokens are all AnySequence.
C18_DpTableMeaning ==
    (solver = "dp" /\ dp_pc = "done") =>
        /\ \A i \in 0..Len(s) : \A j \in 0..Len(tokens) :
            (dp[i][j] = "Match")
                <=> CanonicalMatch(SubSeq(s, 1, i), SubSeq(tokens, 1, j))
        /\ \A i \in 1..Len(s) : dp[i][0] = "NoMatch"
        /\ \A j \in 0..Len(tokens) :
            (dp[0][j] = "Match") <=> AllAnySequence(SubSeq(tokens, 1, j))

\* The table of a text of two characters and three tokens of the three kinds
\* is complete, with a match in the last cell and a match in the row of the
\* empty text (e.g. "*?a" on "ba").
C18_Witness ==
    /\ solver = "dp"
    /\ dp_pc = "done"
    /\ Len(s) = 2
    /\ Len(tokens) = 3
    /\ tokens[1].type = "AnySequence"
    /\ \E j \in 2..3 : tokens[j].type = "LiteralSequence"
    /\ \E j \in 2..3 : tokens[j].type = "AnyChar"
    /\ dp[0][1] = "Match"
    /\ dp[2][3] = "Match"
    /\ dp[2][2] = "NoMatch"

\* C19: the single-row strategy simulates the dense raw-character DP row by
\* row: initially (i = 0) and after the outer loop has processed text character
\* i, row[j] equals the dense table's dp[i][j] for every j in 0..n, and the
\* strategy returns what the dense DP returns.
C19_RowSimulatesDenseTable ==
    (solver = "nfa" /\ nfa_pc \in {"rows", "done"}) =>
        /\ \A j \in 0..Len(p) : nfa_dp[j] = RawDpTable(s, p)[nfa_i - 1][j]
        /\ nfa_pc = "done" => nfa_result = Some(RawDpIsMatch(s, p))

\* The outer loop has processed the first of two text characters of a pattern
\* holding an asterisk, a question mark and an ordinary character, and the row
\* holds a match beyond column 0.
C19_Witness ==
    /\ solver = "nfa"
    /\ nfa_pc = "rows"
    /\ Len(s) = 2
    /\ nfa_i = 2
    /\ \E j \in 1..Len(p) : p[j] = Asterisk
    /\ \E j \in 1..Len(p) : p[j] = QuestionMark
    /\ \E j \in 1..Len(p) : p[j] \in OrdinaryChars
    /\ \E j \in 1..Len(p) : nfa_dp[j]
    /\ \E j \in 1..Len(p) : ~nfa_dp[j]

\* No pair of indices occurs twice among the executions of the uncached body.
EvaluatedAtMostOnce ==
    \A a, b \in 1..Len(memo_evaluated) :
        memo_evaluated[a] = memo_evaluated[b] => a = b

\* Every written cache cell holds what the recursive strategy returns for its
\* pair of indices.
CachedValuesAreRecursive ==
    \A i \in DOMAIN memo : \A j \in DOMAIN memo[i] :
        memo[i][j] # None => memo[i][j] = Some(RecIsMatch(s, tokens, i, j))

\* A step of the match call leaves every written cache cell as it is.
WrittenCellsKept ==
    \A i \in DOMAIN memo : \A j \in DOMAIN memo[i] :
        memo[i][j] # None => memo'[i][j] = memo[i][j]

\* C20: in one match call of the memoized strategy the uncached body of a
\* pair (textIndex, tokenIndex) is executed at most once, a cache cell once
\* written is never rewritten with a different value, and its value is what
\* the recursive strategy returns for that pair.
C20_MemoEvaluatesOnce ==
    /\ []((solver = "memo" /\ memo_pc \in {"running", "done"}) =>
            (EvaluatedAtMostOnce /\ CachedValuesAreRecursive))
    /\ [][(solver = "memo" /\ memo_pc = "running") => WrittenCellsKept]_vars

\* A call is entered for a pair whose body has been executed and whose cell
\* is written: the cached value is about to be returned.
C20_Witness ==
    /\ solver = "memo"
    /\ memo_pc = "running"
    /\ memo_stack # <<>>
    /\ Top(memo_stack).at = "entry"
    /\ memo[Top(memo_stack).i][Top(memo_stack).j] # None
    /\ \E a \in 1..Len(memo_evaluated) :
        memo_evaluated[a] = <<Top(memo_stack).i, Top(memo_stack).j>>

\* isMatch of the greedy strategy has been entered.
GreedyEntered == solver = "greedy" /\ greedy_pc \in {"loop", "trailing", "done"}

\* The cursors stay within the text and the token list, and a backtrack
\* point's remembered text index is at most s_idx and at most m.
GreedyCursorsBounded ==
    /\ s_idx <= Len(s)
    /\ p_idx <= Len(tokens)
    /\ backtrack_point # None =>
        /\ backtrack_point[1].s_match_idx <= s_idx
        /\ backtrack_point[1].s_match_idx <= Len(s)

\* A step keeps the backtrack point and does not decrease its text index.
RememberedTextIndexKept ==
    backtrack_point # None =>
        /\ backtrack_point' # None
        /\ backtrack_point'[1].s_match_idx >= backtrack_point[1].s_match_idx

\* C21: in the greedy strategy s_idx <= m and p_idx <= n at every step, an
\* existing backtrack point's remembered text index is <= s_idx and <= m, and
\* over the run the remembered text index never decreases, also when a later
\* AnySequence replaces the backtrack point.
C21_GreedyCursorBounds ==
    /\ [](GreedyEntered => GreedyCursorsBounded)
    /\ [][GreedyEntered => RememberedTextIndexKept]_vars

\* The strategy backtracked to the first token, matched the literal after it,
\* and a later AnySequence has replaced the backtrack point while text remains.
C21_Witness ==
    /\ solver = "greedy"
    /\ greedy_pc = "loop"
    /\ s # <<>>
    /\ Len(tokens) >= 3
    /\ tokens[1].type = "AnySequence"
    /\ tokens[2].type = "LiteralSequence"
    /\ tokens[2].value[1] # s[1]
    /\ backtrack_point # None
    /\ backtrack_point[1].star_p_idx = 2
    /\ backtrack_point[1].s_match_idx = s_idx
    /\ s_idx < Len(s)

\* A step keeps the backtrack point and does not decrease its token index.
StarIndexKept ==
    backtrack_point # None =>
        /\ backtrack_point' # None
        /\ backtrack_point'[1].star_p_idx >= backtrack_point[1].star_p_idx

\* The token cursor is beyond the recorded AnySequence token.
CursorBeyondRecordedStar ==
    backtrack_point # None =>
        /\ TokenAt(tokens, backtrack_point[1].star_p_idx).type = "AnySequence"
        /\ p_idx > backtrack_point[1].star_p_idx

\* C22: the greedy strategy holds at most one backtrack point, whose token
\* index never decreases during a run; the token cursor is always beyond the
\* recorded AnySequence token, so it is never reset to or before an earlier one.
C22_SingleBacktrackPoint ==
    /\ [](GreedyEntered => (Len(backtrack_point) <= 1 /\ CursorBeyondRecordedStar))
    /\ [][GreedyEntered => StarIndexKept]_vars

\* The strategy has backtracked to a later AnySequence token up to the end of
\* the text, an earlier AnySequence token having been recorded before it.
C22_Witness ==
    /\ solver = "greedy"
    /\ tokens # <<>>
    /\ tokens[1].type = "AnySequence"
    /\ backtrack_point # None
    /\ backtrack_point[1].star_p_idx >= 2
    /\ backtrack_point[1].s_match_idx = Len(s)
    /\ p_idx = backtrack_point[1].star_p_idx + 1

\* The values a match invocation can return.
BooleanResults == {Some(TRUE), Some(FALSE)}

\* An iteration of the greedy main loop advances a cursor or strictly
\* increases the remembered text index.
GreedyIterationProgress ==
    (solver = "greedy" /\ greedy_pc = "loop" /\ greedy_pc' = "loop") =>
        \/ s_idx' > s_idx
        \/ p_idx' > p_idx
        \/ /\ backtrack_point # None
           /\ backtrack_point' # None
           /\ backtrack_point'[1].s_match_idx > backtrack_point[1].s_match_idx

\* Every call on the stack has a larger textIndex + tokenIndex than its caller.
CallsIncreaseIndexSum(stack) ==
    \A k \in 2..Len(stack) :
        stack[k].i + stack[k].j > stack[k - 1].i + stack[k - 1].j

\* C23: every match invocation terminates with a boolean: each strategy of
\* the typed test returns one, an iteration of the greedy loop advances a
\* cursor or strictly increases the remembered text index, and every
\* recursive call of the recursive and memoized strategies has a strictly
\* larger textIndex + tokenIndex than its caller.
C23_MatchTerminates ==
    /\ <>(/\ solver = "done"
          /\ {rec_result, memo_result, dp_result, nfa_result, greedy_result}
                \subseteq BooleanResults)
    /\ [][GreedyIterationProgress]_vars
    /\ [](CallsIncreaseIndexSum(rec_stack) /\ CallsIncreaseIndexSum(memo_stack))

\* All strategies have returned; the recursive strategy nested three calls
\* and the greedy strategy backtracked.
C23_Witness ==
    /\ solver = "done"
    /\ rec_max_depth >= 3
    /\ memo_max_depth >= 3
    /\ backtrack_point # None
    /\ backtrack_point[1].s_match_idx >= 1
    /\ greedy_result \in BooleanResults

\* C24: the maximum recursion depth recorded by the recursive and by the
\* memoized strategy, the initial call being at depth 0, never exceeds
\* m + n for a text of length m and a token list of length n.
C24_DepthBounded ==
    /\ (solver = "recursive" /\ rec_pc # "idle") =>
            rec_max_depth <= Len(s) + Len(tokens)
    /\ (solver = "memo" /\ memo_pc # "idle") =>
            memo_max_depth <= Len(s) + Len(tokens)

\* Both strategies have returned with a recorded depth of exactly m + n: a
\* text of two characters against one AnySequence token.
C24_Witness ==
    /\ solver = "memo"
    /\ memo_pc = "done"
    /\ Len(s) = 2
    /\ Len(tokens) = 1
    /\ rec_max_depth = Len(s) + Len(tokens)
    /\ memo_max_depth = Len(s) + Len(tokens)

\* The sum of the LiteralSequence value lengths plus the number of AnyChar
\* tokens.
RECURSIVE FixedLength(_)
FixedLength(toks) ==
    IF toks = <<>> THEN 0
    ELSE (CASE Head(toks).type = "LiteralSequence" -> Len(Head(toks).value)
            [] Head(toks).type = "AnyChar" -> 1
            [] Head(toks).type = "AnySequence" -> 0)
         + FixedLength(Tail(toks))

\* What C25 says of a set of returned results, for the text and the tokens.
FixedLengthLaw(returned) ==
    CountTokens(tokens, "AnySequence") = 0 =>
        /\ Some(TRUE) \in returned => Len(s) = FixedLength(tokens)
        /\ (Len(tokens) = 1 /\ tokens[1].type = "LiteralSequence") =>
                returned = {Some(s = tokens[1].value)}

\* C25 as stated: for a token list without AnySequence each of the five
\* strategies has returned true only on a text whose length is the sum of the
\* literal lengths plus the number of AnyChar tokens, and a single
\* LiteralSequence has matched exactly the text equal to its value.
C25_FixedLengthAllStrategies ==
    solver = "done" => FixedLengthLaw(AllStrategyResults)

\* C25 as amended: the four token strategies obey that law, and so does the
\* single-row DP whenever the pattern holds no backslash.
C25_FixedLength ==
    solver = "done" =>
        /\ FixedLengthLaw(TokenStrategyResults)
        /\ ~HasBackslash(p) => FixedLengthLaw(AllStrategyResults)

\* A literal and an AnyChar, no AnySequence, have matched a text of two
\* characters in all strategies.
C25_Witness ==
    /\ solver = "done"
    /\ Len(tokens) = 2
    /\ CountTokens(tokens, "LiteralSequence") = 1
    /\ CountTokens(tokens, "AnyChar") = 1
    /\ Len(s) = 2
    /\ AllStrategyResults = {Some(TRUE)}

\* C26: the extra-memory estimate depends on sizes only, not on the match
\* outcome: the dense DP's is (m + 1) * (n + 1) * cell size, the recursive
\* strategy's is max_depth * frame size, and the greedy strategy's is the same
\* constant for every text and token list.
C26_SpaceFromSizesOnly ==
    /\ rec_pc = "done" =>
        space_used["recursive"] =
            Some(rec_max_depth * (2 * SizeofSizeT + SizeofVoidPtr))
    /\ dp_pc = "done" =>
        space_used["dp"] = Some((Len(s) + 1) * (Len(tokens) + 1) * SizeofDpState)
    /\ greedy_pc = "done" =>
        space_used["greedy"] = Some(2 * SizeofSizeT + SizeofOptionalBacktrackPoint)

\* All strategies have run on a text of two characters and three tokens: the
\* dense DP reports 12 cells, the recursive strategy at least three frames,
\* and the greedy strategy its constant after a failed match.
C26_Witness ==
    /\ solver = "done"
    /\ Len(s) = 2
    /\ Len(tokens) = 3
    /\ space_used["dp"] = Some(12 * SizeofDpState)
    /\ rec_max_depth >= 3
    /\ space_used["recursive"] # None
    /\ space_used["recursive"][1] >= 72
    /\ greedy_result = Some(FALSE)
    /\ space_used["greedy"] = Some(40)

\* C28: for every text and every raw pattern without a backslash, the
\* raw-character solver and the token-based solver of the same strategy (dense
\* DP, greedy) return the same boolean.
C28_RawAndTokenSolversAgree ==
    (solver = "done" /\ ~HasBackslash(p)) =>
        /\ dp_result = Some(RawDpIsMatch(s, p))
        /\ greedy_result = Some(RawGreedyIsMatch(s, p))

\* The dense DP part alone: the raw-character DP and the token DP agree.
RawAndTokenDpAgree ==
    (solver = "done" /\ ~HasBackslash(p)) => dp_result = Some(RawDpIsMatch(s, p))

\* The greedy part on texts that hold no asterisk.
RawAndTokenGreedyAgreeOnPlainText ==
    (solver = "done" /\ ~HasBackslash(p) /\ \A k \in 1..Len(s) : s[k] # Asterisk) =>
        greedy_result = Some(RawGreedyIsMatch(s, p))

\* C29: Parser::parse never produces a CharacterSet token, so on the tokens it
\* returns the unreachable points after the token switch of the dense DP and
\* of the memoized strategy are never reached.
C29_UnreachableNeverReached ==
    /\ ppc = "done" =>
        \A k \in 1..Len(tokens) :
            tokens[k].type \in TokenTypeIndex \ {"CharacterSet"}
    /\ (solver = "dp" /\ dp_pc \in {"fill", "done"}) =>
        \A i \in DOMAIN dp : \A j \in DOMAIN dp[i] : dp[i][j] # "Unreachable"
    /\ (solver = "memo" /\ memo_pc = "running" /\ memo_stack # <<>>) =>
        (Top(memo_stack).j < Len(tokens) =>
            ~MemoUnreachable(TokenAt(tokens, Top(memo_stack).j)))

\* The dense DP has filled the table of a text of two characters and three
\* tokens of the three kinds the parser produces, after the memoized strategy
\* visited them.
C29_Witness ==
    /\ solver = "dp"
    /\ dp_pc = "done"
    /\ memo_pc = "done"
    /\ Len(s) = 2
    /\ Len(tokens) = 3
    /\ {tokens[k].type : k \in 1..3} = {"AnySequence", "LiteralSequence", "AnyChar"}
    /\ Len(memo_evaluated) >= 4

(***************************************************************************)
(* Claims about Validator::validateRawString (SpecValidate).               *)
(***************************************************************************)
\* The byte that stores a char value.
ByteValue(c) == IF c < 0 THEN c + 256 ELSE c

\* The 1-based positions of the bytes above 127.
NonAsciiPositions(raw) == {k \in 1..Len(raw) : ByteValue(raw[k]) > 127}

\* C10: validateRawString returns the empty list when every byte of the string
\* is at most 127; otherwise it returns exactly one Issue, of type Error and
\* code MultibyteCharacterNotAllowed, whose position is the 1-based index of
\* the first byte above 127.
C10_ValidateRawString ==
    v_pc = "done" =>
        IF NonAsciiPositions(str) = {}
        THEN issues = <<>>
        ELSE /\ Len(issues) = 1
             /\ issues[1].type = "Error"
             /\ issues[1].code = "MultibyteCharacterNotAllowed"
             /\ \E n \in NonAsciiPositions(str) :
                    /\ \A k \in NonAsciiPositions(str) : n <= k
                    /\ SubSeq(issues[1].message, 1, 4)
                        = <<"Error", " at position ", ToString(n), ": ">>

\* A string of the byte 127 followed by two bytes above 127 has been
\* validated: the one issue is at position 2.
C10_Witness ==
    /\ v_pc = "done"
    /\ str = <<127, -62, -128>>
    /\ Len(issues) = 1
    /\ issues[1].message[3] = "2"

TypeTable(code) ==
    IF code = "ConsecutiveAsterisksMerged" THEN "Warning" ELSE "Error"

\* C12: the type of every Issue is fixed by its code alone, whatever the
\* position and the detail of the event: Error for
\* MultibyteCharacterNotAllowed, UndefinedEscapeSequence and TrailingBackslash,
\* Warning for ConsecutiveAsterisksMerged.
C12_TypeFixedByCode ==
    \A k \in 1..Len(parse_issues) :
        /\ parse_issues[k].code \in IssueCodes
        /\ parse_issues[k].code \in
                {"MultibyteCharacterNotAllowed", "UndefinedEscapeSequence", "TrailingBackslash"}
            => parse_issues[k].type = "Error"
        /\ parse_issues[k].code = "ConsecutiveAsterisksMerged"
            => parse_issues[k].type = "Warning"

\* Two events of the same code that differ in position and detail, and one
\* ConsecutiveAsterisksMerged event, have been turned into issues.
C12_Witness ==
    /\ pr_pc = "done"
    /\ Len(parse_issues) = 3
    /\ events[1].code = "UndefinedEscapeSequence"
    /\ events[2].code = "UndefinedEscapeSequence"
    /\ events[1].position # events[2].position
    /\ events[1].detail # events[2].detail
    /\ events[3].code = "ConsecutiveAsterisksMerged"
    /\ parse_issues[1].type = "Error"
    /\ parse_issues[3].type = "Warning"

\* C13: the message of every Issue is "<Type> at position <n>: <text>", with
\* <Type> the word "Error" or "Warning" that agrees with the Issue's type and
\* <n> the position of the event; the text of an UndefinedEscapeSequence with a
\* detail holds a backslash followed by the detail.
C13_MessageForm ==
    \A k \in 1..Len(parse_issues) :
        LET issue == parse_issues[k]
            event == events[k]
        IN  /\ Len(issue.message) >= 5
            /\ issue.message[1] \in {"Error", "Warning"}
            /\ issue.message[1] = issue.type
            /\ issue.message[2] = " at position "
            /\ issue.message[3] = ToString(event.position)
            /\ issue.message[4] = ": "
            /\ (event.code = "UndefinedEscapeSequence" /\ event.detail # <<>>) =>
                \E n \in 5..Len(issue.message) - 1 :
                    /\ issue.message[n] = "\\"
                    /\ issue.message[n + 1] = "b"

\* An UndefinedEscapeSequence event at position 2 with the detail "b" has been
\* turned into the message "Error at position 2: Undefined escape sequence
\* '\b'. This is a fatal error."
C13_Witness ==
    /\ pr_pc = "done"
    /\ Len(events) = 1
    /\ events[1] = [code |-> "UndefinedEscapeSequence", position |-> 2, detail |-> <<<<98>>>>]
    /\ parse_issues[1].message
        = <<"Error", " at position ", "2", ": ", "Undefined escape sequence '",
            "\\", "b", "'. This is a fatal error.">>

(***************************************************************************)
(* Claims about main (SpecCli).                                            *)
(***************************************************************************)
\* The validation of the text, of the pattern and of the parse events gives
\* no Error: no byte of either line is above 127 and no parse issue is an
\* Error.
NoErrorIssue ==
    /\ \A k \in 1..Len(s) : ByteValue(s[k]) <= 127
    /\ \A k \in 1..Len(p) : ByteValue(p[k]) <= 127
    /\ \A k \in 1..Len(parse_issues) : parse_issues[k].type # "Error"

\* The selected strategy has been invoked.
StrategyInvoked == solver # "none"

\* C14: a strategy is only ever invoked when no issue is an Error; and when
\* main has returned after reading both lines, the selected strategy has been
\* invoked if and only if no issue of the three validations is an Error, so
\* that Warnings alone never stop the run.
C14_InvokedIffNoError ==
    /\ StrategyInvoked => (lines_read = 2 /\ solver = solver_choice /\ NoErrorIssue)
    /\ (cli_pc = "exit" /\ lines_read = 2) => (StrategyInvoked <=> NoErrorIssue)

\* main has returned EXIT_SUCCESS after a run whose only issues are Warnings
\* for merged asterisks: the strategy was invoked.
C14_Witness ==
    /\ cli_pc = "exit"
    /\ exit_code = <<"EXIT_SUCCESS">>
    /\ lines_read = 2
    /\ parse_issues # <<>>
    /\ \A k \in 1..Len(parse_issues) : parse_issues[k].type = "Warning"
    /\ cerr # <<>>
    /\ StrategyInvoked

\* C15: for a text line that holds a '?' or a '*' no matching strategy is
\* invoked.
C15_WildcardTextRejected ==
    (lines_read >= 1 /\ FindWildcard(s) # Npos) => ~StrategyInvoked

(***************************************************************************)
(* Claims about repeated calls of Parser::parse (SpecParserTest).          *)
(***************************************************************************)
\* C16: any two calls of Parser::parse on the same pattern have returned equal
\* token lists and equal event lists, whatever call was made in between.
C16_ParseDeterministic ==
    \A a, b \in 1..Len(parse_calls) :
        parse_calls[a].pattern = parse_calls[b].pattern =>
            /\ parse_calls[a].tokens = parse_calls[b].tokens
            /\ parse_calls[a].events = parse_calls[b].events

\* Three calls have returned: the first and the third on the same pattern,
\* which gives tokens and events, the second on another pattern that gives
\* tokens and events too.
C16_Witness ==
    /\ Len(parse_calls) = 3
    /\ parse_calls[1].pattern = parse_calls[3].pattern
    /\ parse_calls[1].pattern # parse_calls[2].pattern
    /\ parse_calls[1].tokens # <<>> /\ parse_calls[1].events # <<>>
    /\ parse_calls[2].tokens # <<>> /\ parse_calls[2].events # <<>>
    /\ parse_calls[3].tokens = parse_calls[1].tokens

====
